---- MODULE Spec2Model ----
(***************************************************************************)
(* A model of the mypyc backend: the declaration sort and the text         *)
(* generation of the module generator and the compilation entry point      *)
(* (emitmodule.py), structural type equality (sametype.py), the slot       *)
(* layout of native classes and the IR data model of blocks, environments  *)
(* and modules (ops.py), and the function emitter (emitfunc.py).           *)
(*                                                                         *)
(* Each component is a pure batch transformation, so each gets its own     *)
(* specification over the shared variables: the component's inputs are     *)
(* drawn in its Init, its operations are the actions, and the variables of *)
(* the other components stay idle.                                         *)
(***************************************************************************)
EXTENDS Integers, Sequences, FiniteSets, TLC

VARIABLES
    \* ModuleGenerator.toposort_declarations (emitmodule.py)
    declarations,         \* context.declarations: name -> dependency set, names in insertion order 1..N
    marked_declarations,  \* the names whose MarkedDeclaration.mark is True
    result,               \* the list being built
    stack,                \* the active _toposort_visit calls, innermost last
    position,             \* index of the outer loop over marked_declarations.items()
    toposort_pc,          \* "loop" | "done"
    compilation,          \* 1 for the first compilation of the table, 2 for the repeated one
    previous_result,      \* what the first compilation returned
    \* sametype.py: the call made and what it returned
    same_fn,              \* "none" | "is_same_type" | "is_same_signature" | "is_same_method_signature"
    arg_a,                \* first argument of the call
    arg_b,                \* second argument of the call
    same_result,          \* the value returned
    \* RInstance slot lookups (ops.py)
    class_ir,             \* the ClassIR of the RInstance
    slot_fn,              \* "none" | "getter_index" | "setter_index" | "method_index"
    slot_name,            \* the name looked up
    slot_result,          \* the index returned, or the AssertionError raised
    \* ModuleGenerator text generation (emitmodule.py)
    modules,              \* self.modules: the list of (module name, ModuleIR)
    fragments,            \* the lines emitted to the emitter so far
    module_position,      \* index of the loop over self.modules
    generator_pc,         \* "idle" | the loop of generate_c_for_modules that runs next | "done"
    context_declarations, \* self.context.declarations: the HeaderDeclarations, in insertion order
    output,               \* the text generate_c_for_modules returned
    \* FunctionEmitterVisitor and the type queries it makes (emitfunc.py, ops.py)
    emit_fn,              \* "none" | the method called
    op,                   \* the op visited, or the type queried
    body,                 \* the lines emitted to the body emitter
    temp_counter,         \* the number of temporaries named so far
    emit_result,          \* what the call returned, or the exception raised
    reg_types,            \* self.env.types: the type of each register
    \* BasicBlock, FuncIR and format_blocks (ops.py)
    blocks,               \* the list of BasicBlocks being built
    func_ir,              \* the FuncIR constructed from the blocks, if any
    formatted,            \* what format_blocks returned for the blocks, if called
    \* Environment (ops.py)
    env,                  \* the Environment: its registers, symbol table and temp_index
    env_before,           \* the Environment as it was before the last call
    env_fn,               \* "none" | the method called last
    env_arg,              \* the variable or op the last call was made with
    env_result,           \* what the last call returned, or the exception raised
    \* ModuleIR (ops.py)
    given_imports,        \* the import list passed to the ModuleIR constructor
    module_ir,            \* the ModuleIR constructed, if any
    \* generate_native_function (emitfunc.py)
    func,                 \* fn: the FuncIR the function is generated for
    fn_declarations,      \* the lines of the declarations emitter
    fn_body,              \* the lines of the body emitter
    fn_emitter,           \* the lines of the emitter the function is appended to
    \* compile_modules_to_c (emitmodule.py)
    compile_pc,           \* "idle" | the statement of compile_modules_to_c that runs next | "done"
    compile_args,         \* module_names and options.strict_optional
    build_result,         \* result: what build returned, its errors and files
    compile_modules,      \* modules: the (module name, ModuleIR) pairs built so far
    compile_steps,        \* the calls made so far, in order
    compile_result,       \* the text returned, or the exception raised
    \* the compiled extension at run time (the C text emitmodule.py and emitfunc.py emit)
    extension_modules,    \* the (module name, ModuleIR) pairs compiled into the extension
    extension_text,       \* the C text of the extension
    c_globals,            \* the value of the static variable _globals
    initialized,          \* the modules whose init routine has run, in the order they ran
    traceback             \* the last CPy_AddTraceback call: the module of the caller, the dict passed

toposort_vars == <<declarations, marked_declarations, result, stack, position,
                   toposort_pc, compilation, previous_result>>

sametype_vars == <<same_fn, arg_a, arg_b, same_result>>

slot_vars == <<class_ir, slot_fn, slot_name, slot_result>>

generator_vars == <<modules, fragments, module_position, generator_pc,
                    context_declarations, output>>

emit_vars == <<emit_fn, op, body, temp_counter, emit_result, reg_types>>

native_vars == <<func, fn_declarations, fn_body, fn_emitter>>

compile_vars == <<compile_pc, compile_args, build_result, compile_modules, compile_steps,
                  compile_result>>

load_vars == <<extension_modules, extension_text, c_globals, initialized, traceback>>

block_vars == <<blocks, func_ir, formatted>>

\* The components of the IR data model (ops.py).
env_vars == <<env, env_before, env_fn, env_arg, env_result>>

module_ir_vars == <<given_imports, module_ir>>

ir_vars == <<block_vars, env_vars, module_ir_vars>>

vars == <<toposort_vars, sametype_vars, slot_vars, generator_vars, emit_vars, ir_vars,
          native_vars, compile_vars, load_vars>>

\* What each component leaves alone: the variables of the other components.
not_toposort_vars == <<sametype_vars, slot_vars, generator_vars, emit_vars, ir_vars,
                       native_vars, compile_vars, load_vars>>

not_sametype_vars == <<toposort_vars, slot_vars, generator_vars, emit_vars, ir_vars,
                       native_vars, compile_vars, load_vars>>

not_slot_vars == <<toposort_vars, sametype_vars, generator_vars, emit_vars, ir_vars,
                   native_vars, compile_vars, load_vars>>

not_generator_vars == <<toposort_vars, sametype_vars, slot_vars, emit_vars, ir_vars,
                        native_vars, compile_vars, load_vars>>

not_emit_vars == <<toposort_vars, sametype_vars, slot_vars, generator_vars, ir_vars,
                   native_vars, compile_vars, load_vars>>

not_ir_vars == <<toposort_vars, sametype_vars, slot_vars, generator_vars, emit_vars,
                 native_vars, compile_vars, load_vars>>

not_block_vars == <<not_ir_vars, env_vars, module_ir_vars>>

not_env_vars == <<not_ir_vars, block_vars, module_ir_vars>>

not_module_ir_vars == <<not_ir_vars, block_vars, env_vars>>

not_native_vars == <<toposort_vars, sametype_vars, slot_vars, generator_vars, emit_vars,
                     ir_vars, compile_vars, load_vars>>

not_compile_vars == <<toposort_vars, sametype_vars, slot_vars, generator_vars, emit_vars,
                      ir_vars, native_vars, load_vars>>

not_load_vars == <<toposort_vars, sametype_vars, slot_vars, generator_vars, emit_vars, ir_vars,
                   native_vars, compile_vars>>

\* The state of a component that is not running.
NoArg == [kind |-> "none"]

IdleToposort ==
    /\ declarations = <<>>
    /\ marked_declarations = {}
    /\ result = <<>>
    /\ stack = <<>>
    /\ position = 0
    /\ toposort_pc = "idle"
    /\ compilation = 0
    /\ previous_result = <<>>

IdleSameType ==
    /\ same_fn = "none"
    /\ arg_a = NoArg
    /\ arg_b = NoArg
    /\ same_result = FALSE

\* What a call leaves behind: the value it returned, or the exception it raised.
Returned(v) == [raised |-> "none", value |-> v]

AssertionError == [raised |-> "AssertionError", value |-> <<>>]

NoResult == [raised |-> "none", value |-> <<>>]

IdleSlot ==
    /\ class_ir = NoArg
    /\ slot_fn = "none"
    /\ slot_name = ""
    /\ slot_result = NoResult

IdleGenerator ==
    /\ modules = <<>>
    /\ fragments = <<>>
    /\ module_position = 0
    /\ generator_pc = "idle"
    /\ context_declarations = <<>>
    /\ output = <<>>

IdleEmit ==
    /\ emit_fn = "none"
    /\ op = NoArg
    /\ body = <<>>
    /\ temp_counter = 0
    /\ emit_result = NoResult
    /\ reg_types = <<>>

IdleNative ==
    /\ func = NoArg
    /\ fn_declarations = <<>>
    /\ fn_body = <<>>
    /\ fn_emitter = <<>>

IdleCompile ==
    /\ compile_pc = "idle"
    /\ compile_args = NoArg
    /\ build_result = NoArg
    /\ compile_modules = <<>>
    /\ compile_steps = <<>>
    /\ compile_result = NoResult

IdleLoad ==
    /\ extension_modules = <<>>
    /\ extension_text = <<>>
    /\ c_globals = "NULL"
    /\ initialized = <<>>
    /\ traceback = NoArg

IdleBlocks ==
    /\ blocks = <<>>
    /\ func_ir = NoArg
    /\ formatted = NoResult

\* Environment.__init__
NewEnvironment == [regs |-> <<>>, symtable |-> <<>>, temp_index |-> 0]

IdleEnv ==
    /\ env = NewEnvironment
    /\ env_before = NewEnvironment
    /\ env_fn = "none"
    /\ env_arg = NoArg
    /\ env_result = NoResult

IdleModuleIR ==
    /\ given_imports = <<>>
    /\ module_ir = NoArg

IdleIR == IdleBlocks /\ IdleEnv /\ IdleModuleIR

(***************************************************************************)
(* Small helpers over sequences.                                           *)
(***************************************************************************)
Last(s) == s[Len(s)]

Front(s) == SubSeq(s, 1, Len(s) - 1)

(***************************************************************************)
(* ModuleGenerator.toposort_declarations (emitmodule.py:204-232).          *)
(*                                                                         *)
(* context.declarations is an insertion-ordered table from a name to a     *)
(* HeaderDeclaration, whose dependencies field is a set of names.  The     *)
(* names are 1..NumDecls in insertion order.  Iterating a set of strings   *)
(* visits its members in an order that the hash seed of the process        *)
(* decides, so each step of "for child in decl.declaration.dependencies"   *)
(* takes any member not yet taken.                                         *)
(***************************************************************************)
NumDecls == 4

MaxDeps == 6

DeclNames == 1..NumDecls

DepPairs == {p \in DeclNames \X DeclNames : p[1] # p[2]}

\* No dependency cycle among nodes: peel off the declarations that depend on
\* nothing left, until none is left.
RECURSIVE IsAcyclic(_, _)
IsAcyclic(nodes, E) ==
    IF nodes = {} THEN TRUE
    ELSE LET free == {n \in nodes : \A p \in E : p[1] = n => p[2] \notin nodes}
         IN  free # {} /\ IsAcyclic(nodes \ free, E)

DependenciesOf(E) == [n \in DeclNames |-> {p[2] : p \in {q \in E : q[1] = n}}]

\* The declaration tables: every acyclic dependency relation of at most
\* MaxDeps entries over the declared names.
DeclarationTables ==
    {DependenciesOf(E) :
        E \in {F \in SUBSET DepPairs : Cardinality(F) <= MaxDeps /\ IsAcyclic(DeclNames, F)}}

\* A visit that never finds the mark set.
IsMarked_never(name, marks) == FALSE

\* "if decl.mark: return"
IsMarked(name, marks) == name \in marks

\* "result.append(decl.declaration)"
PrependDeclaration(res, name) == <<name>> \o res

AppendDeclaration(res, name) == Append(res, name)

\* A call _toposort_visit(name) made with the call stack stk: a marked
\* declaration returns at once, any other starts iterating its dependencies.
ToposortCall(stk, name) ==
    IF IsMarked(name, marked_declarations)
    THEN stk
    ELSE Append(stk, [name |-> name, children |-> declarations[name]])

InitToposort ==
    /\ declarations \in DeclarationTables
    /\ marked_declarations = {}
    /\ result = <<>>
    /\ stack = <<>>
    /\ position = 1
    /\ toposort_pc = "loop"
    /\ compilation = 1
    /\ previous_result = <<>>
    /\ IdleSameType
    /\ IdleSlot
    /\ IdleGenerator
    /\ IdleEmit
    /\ IdleIR
    /\ IdleNative
    /\ IdleCompile
    /\ IdleLoad

\* "for name, marked_declaration in marked_declarations.items(): _toposort_visit(name)"
ToposortLoop ==
    /\ toposort_pc = "loop"
    /\ stack = <<>>
    /\ position <= NumDecls
    /\ stack' = ToposortCall(stack, position)
    /\ position' = position + 1
    /\ UNCHANGED <<declarations, marked_declarations, result, toposort_pc,
                   compilation, previous_result>>
    /\ UNCHANGED not_toposort_vars

\* "for child in decl.declaration.dependencies: _toposort_visit(child)"
ToposortVisitChild ==
    /\ stack # <<>>
    /\ Last(stack).children # {}
    /\ \E child \in Last(stack).children :
          stack' = ToposortCall(
                      [stack EXCEPT ![Len(stack)].children = @ \ {child}], child)
    /\ UNCHANGED <<declarations, marked_declarations, result, position, toposort_pc,
                   compilation, previous_result>>
    /\ UNCHANGED not_toposort_vars

\* "result.append(decl.declaration); decl.mark = True", and the call returns
ToposortVisitAppend ==
    /\ stack # <<>>
    /\ Last(stack).children = {}
    /\ result' = AppendDeclaration(result, Last(stack).name)
    /\ marked_declarations' = marked_declarations \cup {Last(stack).name}
    /\ stack' = Front(stack)
    /\ UNCHANGED <<declarations, position, toposort_pc, compilation, previous_result>>
    /\ UNCHANGED not_toposort_vars

\* "return result"
ToposortReturn ==
    /\ toposort_pc = "loop"
    /\ stack = <<>>
    /\ position > NumDecls
    /\ toposort_pc' = "done"
    /\ UNCHANGED <<declarations, marked_declarations, result, stack, position,
                   compilation, previous_result>>
    /\ UNCHANGED not_toposort_vars

\* The unchanged table is compiled again: a new call starts from an empty
\* result and fresh, unmarked MarkedDeclarations.
Recompile ==
    /\ toposort_pc = "done"
    /\ compilation = 1
    /\ previous_result' = result
    /\ compilation' = 2
    /\ marked_declarations' = {}
    /\ result' = <<>>
    /\ position' = 1
    /\ toposort_pc' = "loop"
    /\ UNCHANGED <<declarations, stack>>
    /\ UNCHANGED not_toposort_vars

NextToposort ==
    \/ ToposortLoop
    \/ ToposortVisitChild
    \/ ToposortVisitAppend
    \/ ToposortReturn
    \/ Recompile

SpecToposort == InitToposort /\ [][NextToposort]_vars

\* C1: in the list toposort_declarations builds for an acyclic table, every
\* declaration comes after each declaration it lists as a dependency.
DependenciesFirst ==
    \A i \in 1..Len(result) :
        \A y \in declarations[result[i]] :
            \E j \in 1..(i - 1) : result[j] = y

\* A finished sort of a table holding a diamond whose top was inserted first.
DiamondSorted ==
    /\ toposort_pc = "done"
    /\ Len(result) = NumDecls
    /\ \E y, z, w \in DeclNames :
          /\ y # z
          /\ {y, z} \subseteq declarations[1]
          /\ w \in declarations[y] \cap declarations[z]

\* C2: a repeated compilation of the same table returns the sequence the
\* first one returned, whatever order the dependency sets are iterated in.
ToposortDeterministic ==
    (compilation = 2 /\ toposort_pc = "done") => result = previous_result

\* The statements of toposort_declarations run one after the other until it
\* returns: a step that can be taken is taken.
FairSpecToposort == SpecToposort /\ WF_vars(NextToposort)

\* C29: for every acyclic table whose dependencies all name declared
\* entries, toposort_declarations terminates, and the list it returns holds
\* every declaration exactly once and nothing else, also a declaration that
\* is reached through several paths.
EveryDeclarationOnce ==
    /\ [](/\ \A i, j \in 1..Len(result) : result[i] = result[j] => i = j
          /\ \A i \in 1..Len(result) : result[i] \in DOMAIN declarations
          /\ toposort_pc = "done" => {result[i] : i \in 1..Len(result)} = DOMAIN declarations)
    /\ <>(toposort_pc = "done")

\* A finished sort of a table in which the first declaration reaches a
\* declaration both directly and through another one; the list holds it once.
SharedDependencySortedOnce ==
    /\ toposort_pc = "done"
    /\ \E y, z \in DeclNames :
          /\ {y, z} \subseteq declarations[1]
          /\ y \in declarations[z]
          /\ Cardinality({i \in 1..Len(result) : result[i] = y}) = 1

(***************************************************************************)
(* Runtime types (ops.py:55-315).  A type is a record of the class it is   *)
(* an instance of (kind), its name attribute, its component types (the     *)
(* types of an RTuple, the value_type of an ROptional) and the C level     *)
(* attributes the emitter reads.                                           *)
(***************************************************************************)
RPrimitive(name, is_unboxed, is_refcounted, ctype) ==
    [kind |-> "RPrimitive", name |-> name, types |-> <<>>,
     is_unboxed |-> is_unboxed, is_refcounted |-> is_refcounted, ctype |-> ctype]

object_rprimitive == RPrimitive("builtins.object", FALSE, TRUE, "PyObject *")

int_rprimitive == RPrimitive("builtins.int", TRUE, TRUE, "CPyTagged")

bool_rprimitive == RPrimitive("builtins.bool", TRUE, FALSE, "char")

\* "self.is_refcounted = any(t.is_refcounted for t in self.types)".  The
\* ctype is "struct tuple_def_<unique_id>"; the hash-derived unique_id is
\* left out of the name.
RTuple(types) ==
    [kind |-> "RTuple", name |-> "tuple", types |-> types,
     is_unboxed |-> TRUE,
     is_refcounted |-> (\E i \in 1..Len(types) : types[i].is_refcounted),
     ctype |-> "struct tuple_def"]

\* The class attributes of RType give is_refcounted = True.
RInstance(class_name) ==
    [kind |-> "RInstance", name |-> class_name, types |-> <<>>,
     is_unboxed |-> FALSE, is_refcounted |-> TRUE, ctype |-> "PyObject *"]

ROptional(value_type) ==
    [kind |-> "ROptional", name |-> "optional", types |-> <<value_type>>,
     is_unboxed |-> FALSE, is_refcounted |-> TRUE, ctype |-> "PyObject *"]

value_type(t) == t.types[1]

\* The types of the model: the unboxed primitives, primitives whose names
\* coincide with a class name or with the name attribute of the tuple and
\* optional variants, and two classes.
MaxTypeNodes == 3

AtomicTypes ==
    {int_rprimitive, bool_rprimitive,
     RPrimitive("C", FALSE, TRUE, "PyObject *"),
     RPrimitive("tuple", FALSE, TRUE, "PyObject *"),
     RPrimitive("optional", FALSE, TRUE, "PyObject *"),
     RInstance("C"), RInstance("D")}

RECURSIVE TypesOfSize(_), TupleItems(_)
\* The types built from exactly n constructor applications.
TypesOfSize(n) ==
    IF n = 1 THEN AtomicTypes \cup {RTuple(<<>>)}
    ELSE {ROptional(t) : t \in TypesOfSize(n - 1)}
         \cup {RTuple(items) : items \in TupleItems(n - 1)}

\* The non-empty sequences of types built from m constructor applications.
TupleItems(m) ==
    {<<t>> : t \in TypesOfSize(m)}
    \cup UNION {{<<t>> \o rest : t \in TypesOfSize(k), rest \in TupleItems(m - k)} :
                   k \in 1..(m - 1)}

RTypes == UNION {TypesOfSize(n) : n \in 1..MaxTypeNodes}

(***************************************************************************)
(* Type equality (sametype.py).  is_same_type(a, b) dispatches on the      *)
(* class of a through a.accept(SameTypeVisitor(b)); each visit method      *)
(* tests the class of the right operand with isinstance.                   *)
(***************************************************************************)
Min(m, n) == IF m <= n THEN m ELSE n

RECURSIVE is_same_type(_, _)

visit_rinstance(left, right) ==
    right.kind = "RInstance" /\ left.name = right.name

visit_roptional(left, right) ==
    right.kind = "ROptional" /\ is_same_type(value_type(left), value_type(right))

\* A visit_rprimitive that compares the names alone.
visit_rprimitive_by_name(left, right) == left.name = right.name

visit_rprimitive(left, right) ==
    right.kind = "RPrimitive" /\ left.name = right.name

\* A visit_rtuple without the length test: zip stops at the shorter tuple.
visit_rtuple_zip_only(left, right) ==
    /\ right.kind = "RTuple"
    /\ \A i \in 1..Min(Len(left.types), Len(right.types)) :
          is_same_type(left.types[i], right.types[i])

\* zip(left.types, right.types) pairs the items up to the shorter length.
visit_rtuple(left, right) ==
    /\ right.kind = "RTuple"
    /\ Len(right.types) = Len(left.types)
    /\ \A i \in 1..Min(Len(left.types), Len(right.types)) :
          is_same_type(left.types[i], right.types[i])

is_same_type(a, b) ==
    CASE a.kind = "RPrimitive" -> visit_rprimitive(a, b)
      [] a.kind = "RInstance"  -> visit_rinstance(a, b)
      [] a.kind = "ROptional"  -> visit_roptional(a, b)
      [] a.kind = "RTuple"     -> visit_rtuple(a, b)

\* a == b, which is a.__eq__(b): RType.__eq__ for a primitive and an
\* instance ("isinstance(other, RType) and other.name == self.name"),
\* RTuple.__eq__ and ROptional.__eq__ for the other two.
RECURSIVE rtype_eq(_, _)
rtype_eq(a, b) ==
    CASE a.kind \in {"RPrimitive", "RInstance"} -> b.name = a.name
      [] a.kind = "RTuple" ->
            /\ b.kind = "RTuple"
            /\ Len(a.types) = Len(b.types)
            /\ \A i \in 1..Min(Len(a.types), Len(b.types)) : rtype_eq(a.types[i], b.types[i])
      [] a.kind = "ROptional" ->
            /\ b.kind = "ROptional"
            /\ rtype_eq(value_type(b), value_type(a))

InitSameType ==
    IdleSameType /\ IdleToposort /\ IdleSlot /\ IdleGenerator /\ IdleEmit /\ IdleIR /\ IdleNative /\ IdleCompile /\ IdleLoad

\* A call is_same_type(a, b) on any two types.
IsSameTypeCall ==
    /\ same_fn = "none"
    /\ \E a, b \in RTypes :
          /\ arg_a' = a
          /\ arg_b' = b
          /\ same_result' = is_same_type(a, b)
    /\ same_fn' = "is_same_type"
    /\ UNCHANGED not_sametype_vars

\* A comparison a == b of any two types.
EqCall ==
    /\ same_fn = "none"
    /\ \E a, b \in RTypes :
          /\ arg_a' = a
          /\ arg_b' = b
          /\ same_result' = rtype_eq(a, b)
    /\ same_fn' = "__eq__"
    /\ UNCHANGED not_sametype_vars

NextSameType ==
    \/ IsSameTypeCall
    \/ EqCall

SpecSameType == InitSameType /\ [][NextSameType]_vars

\* C3: is_same_type is reflexive and symmetric, and it never holds between
\* types of different variants, whatever their names.
SameTypeReflexiveSymmetricDiscriminating ==
    same_fn = "is_same_type" =>
        /\ is_same_type(arg_a, arg_a)
        /\ same_result = is_same_type(arg_b, arg_a)
        /\ (arg_a.kind # arg_b.kind => ~same_result)

\* A primitive and an instance of the same name have been compared.
SameNameOtherVariantCompared ==
    /\ same_fn = "is_same_type"
    /\ arg_a.kind = "RPrimitive"
    /\ arg_b.kind = "RInstance"
    /\ arg_a.name = arg_b.name
    /\ ~same_result

\* C26: a == b holds iff is_same_type(a, b) does, and == is symmetric, also
\* between types of different variants whose names are the same.
EqAgreesWithSameType ==
    same_fn = "__eq__" =>
        /\ same_result = is_same_type(arg_a, arg_b)
        /\ same_result = rtype_eq(arg_b, arg_a)


\* C4: two tuple types are the same type iff they have the same number of
\* items and the items at each position are the same type.
SameTupleIffSameItems ==
    (same_fn = "is_same_type" /\ arg_a.kind = "RTuple" /\ arg_b.kind = "RTuple") =>
        (same_result <=>
            /\ Len(arg_a.types) = Len(arg_b.types)
            /\ \A i \in 1..Len(arg_a.types) :
                  is_same_type(arg_a.types[i], arg_b.types[i]))

\* Two tuples were compared whose items agree up to the shorter length, and
\* two tuples of equal length that differ only in the order of their items.
TuplesOfOtherArityCompared ==
    /\ same_fn = "is_same_type"
    /\ arg_a.kind = "RTuple" /\ arg_b.kind = "RTuple"
    /\ Len(arg_a.types) = 1 /\ Len(arg_b.types) = 2
    /\ is_same_type(arg_a.types[1], arg_b.types[1])
    /\ ~same_result

(***************************************************************************)
(* Signature equality (sametype.py:13-24).  A FuncSignature has args, a    *)
(* list of RuntimeArg (name, type), and ret_type.                          *)
(***************************************************************************)
MaxArgs == 2

RuntimeArg(name, typ) == [name |-> name, type |-> typ]

ArgNames == {"x", "y"}

ArgTypes == {int_rprimitive, RPrimitive("C", FALSE, TRUE, "PyObject *"), RInstance("C")}

RetTypes == {int_rprimitive, RTuple(<<int_rprimitive>>)}

RuntimeArgs == {RuntimeArg(n, t) : n \in ArgNames, t \in ArgTypes}

FuncSignatures ==
    {[args |-> a, ret_type |-> r] :
        a \in UNION {[1..n -> RuntimeArgs] : n \in 0..MaxArgs}, r \in RetTypes}

\* An is_same_signature that compares the argument types alone.
is_same_signature_types_only(a, b) ==
    /\ Len(a.args) = Len(b.args)
    /\ is_same_type(a.ret_type, b.ret_type)
    /\ \A i \in 1..Min(Len(a.args), Len(b.args)) :
          is_same_type(a.args[i].type, b.args[i].type)

is_same_signature(a, b) ==
    /\ Len(a.args) = Len(b.args)
    /\ is_same_type(a.ret_type, b.ret_type)
    /\ \A i \in 1..Min(Len(a.args), Len(b.args)) :
          /\ is_same_type(a.args[i].type, b.args[i].type)
          /\ a.args[i].name = b.args[i].name

\* An is_same_method_signature that zips a.args with b.args, receiver included.
is_same_method_signature_with_receiver(a, b) ==
    /\ Len(a.args) = Len(b.args)
    /\ is_same_type(a.ret_type, b.ret_type)
    /\ \A i \in 1..Min(Len(a.args), Len(b.args)) :
          /\ is_same_type(a.args[i].type, b.args[i].type)
          /\ a.args[i].name = b.args[i].name

\* zip(a.args[1:], b.args[1:]) pairs the arguments after the first.
is_same_method_signature(a, b) ==
    /\ Len(a.args) = Len(b.args)
    /\ is_same_type(a.ret_type, b.ret_type)
    /\ \A i \in 2..Min(Len(a.args), Len(b.args)) :
          /\ is_same_type(a.args[i].type, b.args[i].type)
          /\ a.args[i].name = b.args[i].name

InitSameSignature ==
    IdleSameType /\ IdleToposort /\ IdleSlot /\ IdleGenerator /\ IdleEmit /\ IdleIR /\ IdleNative /\ IdleCompile /\ IdleLoad

IsSameSignatureCall ==
    /\ same_fn = "none"
    /\ \E a, b \in FuncSignatures :
          /\ arg_a' = a
          /\ arg_b' = b
          /\ same_result' = is_same_signature(a, b)
    /\ same_fn' = "is_same_signature"
    /\ UNCHANGED not_sametype_vars

IsSameMethodSignatureCall ==
    /\ same_fn = "none"
    /\ \E a, b \in FuncSignatures :
          /\ arg_a' = a
          /\ arg_b' = b
          /\ same_result' = is_same_method_signature(a, b)
    /\ same_fn' = "is_same_method_signature"
    /\ UNCHANGED not_sametype_vars

NextSameSignature ==
    \/ IsSameSignatureCall
    \/ IsSameMethodSignatureCall

SpecSameSignature == InitSameSignature /\ [][NextSameSignature]_vars

\* C5: is_same_signature holds iff the two signatures have the same number
\* of arguments, the same return type and, at every position, the same
\* argument type and the same argument name.
SameSignatureIffTypesAndNames ==
    same_fn = "is_same_signature" =>
        (same_result <=>
            /\ Len(arg_a.args) = Len(arg_b.args)
            /\ is_same_type(arg_a.ret_type, arg_b.ret_type)
            /\ \A i \in 1..Len(arg_a.args) :
                  /\ is_same_type(arg_a.args[i].type, arg_b.args[i].type)
                  /\ arg_a.args[i].name = arg_b.args[i].name)

\* Two signatures that differ in one argument name only were found different.
SignaturesDifferingInNameCompared ==
    /\ same_fn = "is_same_signature"
    /\ Len(arg_a.args) = 2 /\ Len(arg_b.args) = 2
    /\ is_same_type(arg_a.ret_type, arg_b.ret_type)
    /\ \A i \in 1..2 : is_same_type(arg_a.args[i].type, arg_b.args[i].type)
    /\ arg_a.args[1].name = arg_b.args[1].name
    /\ arg_a.args[2].name # arg_b.args[2].name
    /\ ~same_result

\* C6 as first stated: is_same_method_signature holds iff the signatures
\* have the same number of arguments, the same return type and the same
\* argument type at every position after the first; names are not compared.
SameMethodSignatureIgnoresNames ==
    same_fn = "is_same_method_signature" =>
        (same_result <=>
            /\ Len(arg_a.args) = Len(arg_b.args)
            /\ is_same_type(arg_a.ret_type, arg_b.ret_type)
            /\ \A i \in 2..Len(arg_a.args) :
                  is_same_type(arg_a.args[i].type, arg_b.args[i].type))

\* C6 as amended: is_same_method_signature holds iff the signatures have
\* the same number of arguments, the same return type and, at every position
\* after the first, the same argument type and the same argument name; the
\* type and the name of the first (receiver) argument are not compared.
SameMethodSignatureIffTailTypesAndNames ==
    same_fn = "is_same_method_signature" =>
        (same_result <=>
            /\ Len(arg_a.args) = Len(arg_b.args)
            /\ is_same_type(arg_a.ret_type, arg_b.ret_type)
            /\ \A i \in 2..Len(arg_a.args) :
                  /\ is_same_type(arg_a.args[i].type, arg_b.args[i].type)
                  /\ arg_a.args[i].name = arg_b.args[i].name)

\* Two method signatures whose receivers differ in type and in name were
\* found the same.
MethodSignaturesDifferingInReceiverCompared ==
    /\ same_fn = "is_same_method_signature"
    /\ Len(arg_a.args) = 2 /\ Len(arg_b.args) = 2
    /\ ~is_same_type(arg_a.args[1].type, arg_b.args[1].type)
    /\ arg_a.args[1].name # arg_b.args[1].name
    /\ same_result

(***************************************************************************)
(* Slot layout of a native class (ops.py:263-277, 1217-1241).  A ClassIR   *)
(* has a name, an ordered list of (attribute name, type) pairs and an      *)
(* ordered list of methods.  The names of a class body are distinct.       *)
(***************************************************************************)
MaxAttrs == 2

MaxMethods == 2

AttrNames == {"a", "b", "c", "d"}

MethodNames == {"f", "g", "h", "k"}

AttrTypes == {int_rprimitive, object_rprimitive}

IsInjective(seq) == \A i, j \in 1..Len(seq) : seq[i] = seq[j] => i = j

NameLists(names, max) ==
    {seq \in UNION {[1..n -> names] : n \in 0..max} : IsInjective(seq)}

ClassIRs ==
    {[name |-> "C",
      attributes |-> [i \in 1..Len(attrs) |-> <<attrs[i], types[i]>>],
      methods |-> [i \in 1..Len(meths) |-> [name |-> meths[i]]]] :
        <<attrs, types>> \in
            {at \in NameLists(AttrNames, MaxAttrs) \X
                    UNION {[1..n -> AttrTypes] : n \in 0..MaxAttrs} :
                Len(at[1]) = Len(at[2])},
        meths \in NameLists(MethodNames, MaxMethods)}

\* "for i, x in enumerate(xs): if <x matches>: return ..." returns at the
\* first match; enumerate counts from 0.
FirstMatch(hits) == (CHOOSE i \in hits : \A j \in hits : i <= j) - 1

\* A getter_index that returns the position of the attribute.
getter_index_undoubled(cl, name) ==
    LET hits == {i \in 1..Len(cl.attributes) : cl.attributes[i][1] = name}
    IN  IF hits = {} THEN AssertionError ELSE Returned(FirstMatch(hits))

getter_index(cl, name) ==
    LET hits == {i \in 1..Len(cl.attributes) : cl.attributes[i][1] = name}
    IN  IF hits = {} THEN AssertionError ELSE Returned(FirstMatch(hits) * 2)

\* "return self.getter_index(name) + 1": the assertion of getter_index propagates.
setter_index(cl, name) ==
    LET g == getter_index(cl, name)
    IN  IF g.raised # "none" THEN g ELSE Returned(g.value + 1)

method_index(cl, name) ==
    LET base == Len(cl.attributes) * 2
        hits == {i \in 1..Len(cl.methods) : cl.methods[i].name = name}
    IN  IF hits = {} THEN AssertionError ELSE Returned(base + FirstMatch(hits))

InitSlot ==
    /\ class_ir \in ClassIRs
    /\ slot_fn = "none"
    /\ slot_name = ""
    /\ slot_result = NoResult
    /\ IdleToposort
    /\ IdleSameType
    /\ IdleGenerator
    /\ IdleEmit
    /\ IdleIR
    /\ IdleNative
    /\ IdleCompile
    /\ IdleLoad

LookupNames == AttrNames \cup MethodNames

GetterIndexCall ==
    /\ slot_fn = "none"
    /\ \E name \in LookupNames :
          /\ slot_name' = name
          /\ slot_result' = getter_index(class_ir, name)
    /\ slot_fn' = "getter_index"
    /\ UNCHANGED class_ir
    /\ UNCHANGED not_slot_vars

SetterIndexCall ==
    /\ slot_fn = "none"
    /\ \E name \in LookupNames :
          /\ slot_name' = name
          /\ slot_result' = setter_index(class_ir, name)
    /\ slot_fn' = "setter_index"
    /\ UNCHANGED class_ir
    /\ UNCHANGED not_slot_vars

MethodIndexCall ==
    /\ slot_fn = "none"
    /\ \E name \in LookupNames :
          /\ slot_name' = name
          /\ slot_result' = method_index(class_ir, name)
    /\ slot_fn' = "method_index"
    /\ UNCHANGED class_ir
    /\ UNCHANGED not_slot_vars

NextSlot ==
    \/ GetterIndexCall
    \/ SetterIndexCall
    \/ MethodIndexCall

SpecSlot == InitSlot /\ [][NextSlot]_vars

\* The slot a lookup is expected to return: 2i, 2i+1 and 2n+j for the
\* attribute at position i and the method at position j, counted from 0, of
\* a class of n attributes.
ExpectedSlot(fn, name) ==
    LET n == Len(class_ir.attributes)
        attr_pos == {i \in 1..n : class_ir.attributes[i][1] = name}
        meth_pos == {j \in 1..Len(class_ir.methods) : class_ir.methods[j].name = name}
    IN  CASE fn = "getter_index" ->
                IF attr_pos = {} THEN AssertionError
                ELSE Returned(2 * ((CHOOSE i \in attr_pos : TRUE) - 1))
          [] fn = "setter_index" ->
                IF attr_pos = {} THEN AssertionError
                ELSE Returned(2 * ((CHOOSE i \in attr_pos : TRUE) - 1) + 1)
          [] fn = "method_index" ->
                IF meth_pos = {} THEN AssertionError
                ELSE Returned(2 * n + (CHOOSE j \in meth_pos : TRUE) - 1)

\* The lookups a class answers with an index.
SlotLookups ==
    {<<fn, class_ir.attributes[i][1]>> :
        fn \in {"getter_index", "setter_index"}, i \in 1..Len(class_ir.attributes)}
    \cup {<<"method_index", class_ir.methods[j].name>> : j \in 1..Len(class_ir.methods)}

SlotOf(lookup) ==
    CASE lookup[1] = "getter_index" -> getter_index(class_ir, lookup[2])
      [] lookup[1] = "setter_index" -> setter_index(class_ir, lookup[2])
      [] lookup[1] = "method_index" -> method_index(class_ir, lookup[2])

\* C7: getter_index(a_i) = 2i, setter_index(a_i) = 2i+1, method_index(m_j) =
\* 2n+j; every attribute slot is below every method slot, no two lookups
\* share a slot, and a name the class does not have raises an assertion.
SlotLayout ==
    slot_fn # "none" =>
        /\ slot_result = ExpectedSlot(slot_fn, slot_name)
        /\ \A p, q \in SlotLookups :
              /\ SlotOf(p).raised = "none"
              /\ (p # q => SlotOf(p).value # SlotOf(q).value)
              /\ (p[1] # "method_index" /\ q[1] = "method_index"
                    => SlotOf(p).value < SlotOf(q).value)

\* On a class of two attributes and two methods, the setter of the second
\* attribute was looked up and slot 3 returned.
SecondSetterLookedUp ==
    /\ Len(class_ir.attributes) = 2 /\ Len(class_ir.methods) = 2
    /\ slot_fn = "setter_index"
    /\ slot_name = class_ir.attributes[2][1]
    /\ slot_result = Returned(3)

(***************************************************************************)
(* Module definitions (emitmodule.py:124-202).  An emitted line is the     *)
(* format string of the source followed by the values formatted into it;   *)
(* the double quotes the source puts around a formatted value are left out *)
(* of the format strings.                                                  *)
(***************************************************************************)
MaxModules == 2

Line(fmt, args) == <<fmt>> \o args

RECURSIVE Concat(_)
\* The lines of a sequence of line groups, in order.
Concat(groups) ==
    IF groups = <<>> THEN <<>> ELSE Head(groups) \o Concat(Tail(groups))

\* emitter.names.private_name(module_name)
private_name(module_name) == <<"private_name", module_name>>

\* "module_{}".format(module_name.replace(".", "__dot__"))
c_module_name(module_name) == <<"module_{}", module_name>>

\* ClassIR.type_struct: "{}Type".format(self.name)
type_struct(cl) == <<"{}Type", cl.name>>

\* An init declaration that is the C API init function for any number of modules.
init_declaration_always_canonical(num_modules) == "PyMODINIT_FUNC PyInit_{}(void)"

\* "if len(self.modules) == 1: ... else: ..."
init_declaration(num_modules) ==
    IF num_modules = 1
    THEN "PyMODINIT_FUNC PyInit_{}(void)"
    ELSE "PyObject *x_PyInit_{}(void)"

\* An import section that does not check what PyImport_ImportModule returned.
generate_imports_init_section_unchecked(imps) ==
    [i \in 1..Len(imps) |->
        Line("{} = PyImport_ImportModule({});", <<c_module_name(imps[i]), imps[i]>>)]

\* generate_imports_init_section
generate_imports_init_section(imps) ==
    Concat([i \in 1..Len(imps) |->
        << Line("{} = PyImport_ImportModule({});", <<c_module_name(imps[i]), imps[i]>>),
           Line("if ({} == NULL)", <<c_module_name(imps[i])>>),
           Line("    return NULL;", <<>>) >>])

\* The lines that materialize one literal.
literal_lines(lit) ==
    CASE lit.kind = "int" ->
            << Line("{} = PyLong_FromString({}, NULL, 10);", <<lit.symbol, lit.value>>) >>
      [] lit.kind = "float" ->
            << Line("{} = PyFloat_FromDouble({});", <<lit.symbol, lit.value>>) >>
      [] lit.kind = "str" ->
            << Line("{} = PyUnicode_FromStringAndSize({}, {});",
                    <<lit.symbol, <<"encode_as_c_string", lit.value>> >>),
               Line("if ({} == NULL)", <<lit.symbol>>),
               Line("    return NULL;", <<>>) >>

\* The lines generate_module_def emits for one module.
generate_module_def(num_modules, module_name, module) ==
    LET module_prefix == private_name(module_name)
    IN  << Line("static PyMethodDef {}module_methods[] = {{", <<module_prefix>>) >>
        \o [i \in 1..Len(module.functions) |->
              Line("{{{name}, (PyCFunction){prefix}{cname}, METH_VARARGS | METH_KEYWORDS, NULL}},",
                   <<module.functions[i].name, "CPyPy_", module.functions[i].cname>>)]
        \o << Line("{NULL, NULL, 0, NULL}", <<>>),
              Line("};", <<>>),
              Line("", <<>>),
              Line("static struct PyModuleDef {}module = {{", <<module_prefix>>),
              Line("PyModuleDef_HEAD_INIT,", <<>>),
              Line("{},", <<module_name>>),
              Line("NULL, /* docstring */", <<>>),
              Line("-1,       /* size of per-interpreter state of the module,", <<>>),
              Line("             or -1 if the module keeps state in global variables. */", <<>>),
              Line("{}module_methods", <<module_prefix>>),
              Line("};", <<>>),
              Line("", <<>>),
              Line(init_declaration(num_modules), <<module_name>>),
              Line("{", <<>>),
              Line("PyObject *m;", <<>>) >>
        \o Concat([i \in 1..Len(module.classes) |->
              << Line("if (PyType_Ready(&{}) < 0)", <<type_struct(module.classes[i])>>),
                 Line("    return NULL;", <<>>) >>])
        \o << Line("m = PyModule_Create(&{}module);", <<module_prefix>>),
              Line("if (m == NULL)", <<>>),
              Line("    return NULL;", <<>>),
              Line("_globals = PyModule_GetDict(m);", <<>>),
              Line("if (_globals == NULL)", <<>>),
              Line("    return NULL;", <<>>) >>
        \o generate_imports_init_section(module.imports)
        \o Concat([i \in 1..Len(module.literals) |-> literal_lines(module.literals[i])])
        \o Concat([i \in 1..Len(module.classes) |->
              << Line("Py_INCREF(&{});", <<type_struct(module.classes[i])>>),
                 Line("PyModule_AddObject(m, {}, (PyObject *)&{});",
                      <<module.classes[i].name, type_struct(module.classes[i])>>) >>])
        \o << Line("return m;", <<>>),
              Line("}", <<>>) >>

(***************************************************************************)
(* The control ops of the IR (ops.py:431-567).                             *)
(***************************************************************************)
INVALID_REGISTER == 0 - 99999

IndexError == [raised |-> "IndexError", value |-> <<>>]

\* Branch.traceback_entry is None
NoTraceback == <<>>

Goto(label) == [kind |-> "Goto", label |-> label]

Branch(left, right, true_label, false_label, branch_op, line) ==
    [kind |-> "Branch", left |-> left, right |-> right, true |-> true_label,
     false |-> false_label, op |-> branch_op, negated |-> FALSE,
     traceback_entry |-> NoTraceback, line |-> line]

Return(r) == [kind |-> "Return", reg |-> r]

Unreachable == [kind |-> "Unreachable"]

\* Branch.op_names and Branch.unary_op_names
op_names ==
    [INT_EQ |-> <<"==", "int">>, INT_NE |-> <<"!=", "int">>, INT_LT |-> <<"<", "int">>,
     INT_LE |-> <<"<=", "int">>, INT_GT |-> <<">", "int">>, INT_GE |-> <<">=", "int">>]

unary_op_names ==
    [BOOL_EXPR |-> <<"%r", "bool">>, IS_NONE |-> <<"%r is None", "object">>,
     IS_ERROR |-> <<"is_error(%r)", "">>]

\* Branch.to_str
branch_to_str(o) ==
    LET binary == o.op \in DOMAIN op_names
        names  == IF binary THEN op_names[o.op] ELSE unary_op_names[o.op]
        fmt    == IF binary
                  THEN <<IF o.negated THEN "not %r {} %r" ELSE "%r {} %r", names[1]>>
                  ELSE IF o.negated THEN <<"not {}", names[1]>> ELSE <<names[1]>>
        cond   == <<fmt, o.left, o.right>>
        tb     == IF o.traceback_entry # NoTraceback
                  THEN <<" (error at %s:%d)", o.traceback_entry[1], o.traceback_entry[2]>>
                  ELSE <<"">>
        typ    == IF names[2] # "" THEN <<" :: {}", names[2]>> ELSE <<"">>
    IN  <<"if {} goto %l{} else goto %l", cond, o.true, tb, o.false, typ>>

\* Op.to_str of the op kinds of the model
to_str(o) ==
    CASE o.kind = "Goto"        -> <<"goto %l", o.label>>
      [] o.kind = "Branch"      -> branch_to_str(o)
      [] o.kind = "Return"      -> <<"return %r", o.reg>>
      [] o.kind = "Unreachable" -> <<"unreachable">>
      [] o.kind = "LoadInt"     -> <<"%r = %d", o.dest, o.value>>

(***************************************************************************)
(* Sentinels of the runtime types (ops.py:79-80, 113-123, 198-203,         *)
(* 257-258, 302-303) and the emission of LoadInt and LoadErrorValue        *)
(* (emitfunc.py:182-194).                                                  *)
(***************************************************************************)
MaxLiteral == 21

\* RPrimitive.__init__ sets c_undefined from the ctype; a tuple has no
\* undefined value that is a C expression.
c_undefined_value(t) ==
    CASE t.kind = "RPrimitive" ->
            Returned(CASE t.ctype = "CPyTagged"  -> "CPY_INT_TAG"
                       [] t.ctype = "PyObject *" -> "NULL"
                       [] t.ctype = "char"       -> "2")
      [] t.kind = "RTuple"    -> AssertionError
      [] t.kind = "RInstance" -> Returned("NULL")
      [] t.kind = "ROptional" -> Returned("NULL")

\* "return self.c_undefined_value()"
c_error_value(t) == c_undefined_value(t)

\* FunctionEmitterVisitor.reg: the C name of a register
reg(r) == <<"cpy_r_{}", r>>

\* Emitter.temp_name: the name of the n-th temporary
temp_name(n) == <<"__tmp{}", n>>

Registers == {0, 1}

IntLiterals == (0 - MaxLiteral)..MaxLiteral

LoadInt(dest, value) == [kind |-> "LoadInt", dest |-> dest, value |-> value]

LoadErrorValue(dest, rtype) == [kind |-> "LoadErrorValue", dest |-> dest, rtype |-> rtype]

\* A visit_load_int that stores the literal as it is.
visit_load_int_untagged(o) == << Line("%s = %d;", <<reg(o.dest), o.value>>) >>

visit_load_int(o) == << Line("%s = %d;", <<reg(o.dest), o.value * 2>>) >>

\* What visit_load_error_value does to the body and the temporary counter,
\* and how it ends.  For a tuple the list of item values is built first; an
\* item whose c_undefined_value raises ends the visit before anything is
\* emitted.
visit_load_error_value(o, counter) ==
    IF o.rtype.kind = "RTuple"
    THEN LET items  == o.rtype.types
             values == [i \in 1..Len(items) |-> c_undefined_value(items[i])]
         IN  IF \E i \in 1..Len(items) : values[i].raised # "none"
             THEN [result |-> AssertionError, lines |-> <<>>, counter |-> counter]
             ELSE [result |-> Returned(<<>>),
                   lines |-> << Line("%s %s = { %s };",
                                     <<o.rtype.ctype, temp_name(counter + 1),
                                       [i \in 1..Len(items) |-> values[i].value]>>),
                                Line("%s = %s;", <<reg(o.dest), temp_name(counter + 1)>>) >>,
                   counter |-> counter + 1]
    ELSE [result |-> Returned(<<>>),
          lines |-> << Line("%s = %s;", <<reg(o.dest), c_error_value(o.rtype).value>>) >>,
          counter |-> counter]

\* Emitter.label: the C name of a label
label(l) == <<"CPyL{}", l>>

\* The visitor's source_path and func_name
source_path == "prog.py"

func_name == "f"

visit_goto(o) == << Line("goto %s;", <<label(o.label)>>) >>

visit_return(o) == << Line("return %s;", <<reg(o.reg)>>) >>

BRANCH_OP_MAP ==
    [INT_EQ |-> "CPyTagged_IsEq", INT_NE |-> "CPyTagged_IsNe", INT_LT |-> "CPyTagged_IsLt",
     INT_LE |-> "CPyTagged_IsLe", INT_GT |-> "CPyTagged_IsGt", INT_GE |-> "CPyTagged_IsGe"]

\* The condition visit_branch builds, or the exception raised on the way:
\* "typ.types[0]" raises IndexError for the empty tuple, and c_error_value
\* raises for an item that is a tuple.
branch_cond(o, types) ==
    LET neg     == IF o.negated THEN "!" ELSE ""
        compare == IF o.negated THEN "!=" ELSE "=="
        typ     == types[o.left]
    IN  CASE o.op = "BOOL_EXPR" -> Returned(<<"{}({})", neg, reg(o.left)>>)
          [] o.op = "IS_NONE"   -> Returned(<<"{} {} Py_None", reg(o.left), compare>>)
          [] o.op = "IS_ERROR"  ->
                IF typ.kind = "RTuple"
                THEN IF typ.types = <<>>
                     THEN IndexError
                     ELSE IF c_error_value(typ.types[1]).raised # "none"
                          THEN c_error_value(typ.types[1])
                          ELSE Returned(<<"{}.f0 {} {}", reg(o.left), compare,
                                          c_error_value(typ.types[1]).value>>)
                ELSE IF c_error_value(typ).raised # "none"
                     THEN c_error_value(typ)
                     ELSE Returned(<<"{} {} {}", reg(o.left), compare,
                                     c_error_value(typ).value>>)
          [] OTHER -> Returned(<<"%s%s(%s, %s)", neg, BRANCH_OP_MAP[o.op],
                                 reg(o.left), reg(o.right)>>)

\* The lines visit_branch emits once the condition is built.
branch_lines(o, cond) ==
    << Line("if ({}) {{", <<cond>>) >>
    \o (IF o.traceback_entry # NoTraceback
        THEN << Line("CPy_AddTraceback(\"%s\", \"%s\", %d, _globals);",
                     <<source_path, func_name, o.line>>) >>
        ELSE <<>>)
    \o << Line("goto %s;", <<label(o.true)>>),
          Line("} else", <<>>),
          Line("    goto %s;", <<label(o.false)>>) >>

\* visit_branch: how it ends and the lines it emits
visit_branch(o, types) ==
    LET built == branch_cond(o, types)
        cond  == IF o.traceback_entry # NoTraceback
                 THEN <<"unlikely({})", built.value>>
                 ELSE built.value
    IN  IF built.raised # "none"
        THEN [result |-> built, lines |-> <<>>]
        ELSE [result |-> Returned(<<>>), lines |-> branch_lines(o, cond)]

\* The branches visited: every operator, plain and negated, with and
\* without a traceback entry.  The entry names another function and line
\* than the visitor's function and the branch's own line.
BranchOps == DOMAIN op_names \cup DOMAIN unary_op_names

Branches ==
    {[Branch(left, IF branch_op \in DOMAIN op_names THEN 1 ELSE INVALID_REGISTER,
             true_label, 3 - true_label, branch_op, 7)
        EXCEPT !.negated = negated, !.traceback_entry = entry] :
        left \in Registers, true_label \in {1, 2}, branch_op \in BranchOps,
        negated \in BOOLEAN, entry \in {NoTraceback, <<"g", 5>>}}

\* The types the registers of the visited function have.
RegisterTypes ==
    {int_rprimitive, object_rprimitive, RTuple(<<>>), RTuple(<<int_rprimitive>>),
     RTuple(<<RTuple(<<int_rprimitive>>), int_rprimitive>>)}

InitEmit ==
    /\ emit_fn = "none"
    /\ op = NoArg
    /\ body = <<>>
    /\ temp_counter = 0
    /\ emit_result = NoResult
    /\ reg_types \in [Registers -> RegisterTypes]
    /\ IdleToposort
    /\ IdleSameType
    /\ IdleSlot
    /\ IdleGenerator
    /\ IdleIR
    /\ IdleNative
    /\ IdleCompile
    /\ IdleLoad

\* rtype.c_undefined_value()
CUndefinedValueCall ==
    /\ emit_fn = "none"
    /\ \E t \in RTypes :
          /\ op' = t
          /\ emit_result' = c_undefined_value(t)
    /\ emit_fn' = "c_undefined_value"
    /\ UNCHANGED <<body, temp_counter, reg_types>>
    /\ UNCHANGED not_emit_vars

\* rtype.c_error_value()
CErrorValueCall ==
    /\ emit_fn = "none"
    /\ \E t \in RTypes :
          /\ op' = t
          /\ emit_result' = c_error_value(t)
    /\ emit_fn' = "c_error_value"
    /\ UNCHANGED <<body, temp_counter, reg_types>>
    /\ UNCHANGED not_emit_vars

VisitLoadInt ==
    /\ emit_fn = "none"
    /\ \E dest \in Registers, value \in IntLiterals :
          /\ op' = LoadInt(dest, value)
          /\ body' = body \o visit_load_int(LoadInt(dest, value))
    /\ emit_fn' = "visit_load_int"
    /\ emit_result' = Returned(<<>>)
    /\ UNCHANGED <<temp_counter, reg_types>>
    /\ UNCHANGED not_emit_vars

VisitLoadErrorValue ==
    /\ emit_fn = "none"
    /\ \E dest \in Registers, rtype \in RTypes :
          LET visit == visit_load_error_value(LoadErrorValue(dest, rtype), temp_counter)
          IN  /\ op' = LoadErrorValue(dest, rtype)
              /\ body' = body \o visit.lines
              /\ temp_counter' = visit.counter
              /\ emit_result' = visit.result
    /\ emit_fn' = "visit_load_error_value"
    /\ UNCHANGED reg_types
    /\ UNCHANGED not_emit_vars

VisitBranch ==
    /\ emit_fn = "none"
    /\ \E o \in Branches :
          /\ op' = o
          /\ body' = body \o visit_branch(o, reg_types).lines
          /\ emit_result' = visit_branch(o, reg_types).result
    /\ emit_fn' = "visit_branch"
    /\ UNCHANGED <<temp_counter, reg_types>>
    /\ UNCHANGED not_emit_vars

\* An inversion that swaps the labels and leaves the negation flag alone.
invert_labels_only(o) == [o EXCEPT !.true = o.false, !.false = o.true]

\* Branch.invert: "self.true, self.false = self.false, self.true
\*                 self.negated = not self.negated"
invert(o) == [o EXCEPT !.true = o.false, !.false = o.true, !.negated = ~o.negated]

\* op.invert() on the branch visited, and the visit of the inverted branch
InvertBranch ==
    /\ emit_fn = "visit_branch"
    /\ op' = invert(op)
    /\ body' = body \o visit_branch(invert(op), reg_types).lines
    /\ emit_result' = visit_branch(invert(op), reg_types).result
    /\ emit_fn' = "invert"
    /\ UNCHANGED <<temp_counter, reg_types>>
    /\ UNCHANGED not_emit_vars

\* The primitive ops visited: visit_primitive_op tells them apart by
\* "op.desc is PrimitiveOp.NONE" and so on.  NEW_TUPLE, which is emitted
\* through the Emitter's tuple helpers, is not among them.
MaxListArgs == 2

PrimitiveOp(dest, args, desc) ==
    [kind |-> "PrimitiveOp", dest |-> dest, args |-> args, desc |-> desc]

PrimitiveDescs == {"NONE", "TRUE", "FALSE", "NEW_LIST", "NEW_DICT"}

PrimitiveOps ==
    {PrimitiveOp(dest, <<>>, desc) : dest \in Registers, desc \in PrimitiveDescs \ {"NEW_LIST"}}
    \cup {PrimitiveOp(dest, args, "NEW_LIST") :
             dest \in Registers, args \in UNION {[1..n -> Registers] : n \in 0..MaxListArgs}}

\* A list construction that fills the slots before it tests the allocation.
new_list_lines_unguarded(dest, args) ==
    << Line("%s = PyList_New(%d); ", <<reg(dest), Len(args)>>) >>
    \o [i \in 1..Len(args) |-> Line("Py_INCREF(%s);", <<reg(args[i])>>)]
    \o [i \in 1..Len(args) |->
          Line("PyList_SET_ITEM(%s, %s, %s);", <<reg(dest), i - 1, reg(args[i])>>)]
    \o << Line("if (%s != NULL) {", <<reg(dest)>>), Line("}", <<>>) >>

\* visit_primitive_op, "elif op.desc is PrimitiveOp.NEW_LIST:"
new_list_lines(dest, args) ==
    << Line("%s = PyList_New(%d); ", <<reg(dest), Len(args)>>) >>
    \o [i \in 1..Len(args) |-> Line("Py_INCREF(%s);", <<reg(args[i])>>)]
    \o << Line("if (%s != NULL) {", <<reg(dest)>>) >>
    \o [i \in 1..Len(args) |->
          Line("PyList_SET_ITEM(%s, %s, %s);", <<reg(dest), i - 1, reg(args[i])>>)]
    \o << Line("}", <<>>) >>

visit_primitive_op(o) ==
    CASE o.desc = "NONE" ->
            << Line("{} = Py_None;", <<reg(o.dest)>>), Line("Py_INCREF({});", <<reg(o.dest)>>) >>
      [] o.desc = "TRUE" -> << Line("{} = 1;", <<reg(o.dest)>>) >>
      [] o.desc = "FALSE" -> << Line("{} = 0;", <<reg(o.dest)>>) >>
      [] o.desc = "NEW_LIST" -> new_list_lines(o.dest, o.args)
      [] o.desc = "NEW_DICT" -> << Line("%s = PyDict_New();", <<reg(o.dest)>>) >>

VisitPrimitiveOp ==
    /\ emit_fn = "none"
    /\ \E o \in PrimitiveOps :
          /\ op' = o
          /\ body' = body \o visit_primitive_op(o)
    /\ emit_fn' = "visit_primitive_op"
    /\ emit_result' = Returned(<<>>)
    /\ UNCHANGED <<temp_counter, reg_types>>
    /\ UNCHANGED not_emit_vars

\* Constructors of IncRef and DecRef that take any type.
IncRef_unchecked(dest, typ) ==
    Returned([kind |-> "IncRef", dest |-> dest, target_type |-> typ])

\* IncRef.__init__: "assert typ.is_refcounted"
IncRef(dest, typ) ==
    IF typ.is_refcounted
    THEN Returned([kind |-> "IncRef", dest |-> dest, target_type |-> typ])
    ELSE AssertionError

DecRef_unchecked(dest, typ) ==
    Returned([kind |-> "DecRef", dest |-> dest, target_type |-> typ])

\* DecRef.__init__: "assert typ.is_refcounted"
DecRef(dest, typ) ==
    IF typ.is_refcounted
    THEN Returned([kind |-> "DecRef", dest |-> dest, target_type |-> typ])
    ELSE AssertionError

\* Emitter.emit_inc_ref and emit_dec_ref: a tagged integer and an object
\* are retained or released, a tuple has each of its items retained or
\* released, and a type that is not reference counted gets no line.
RECURSIVE emit_ref_count(_, _, _)
emit_ref_count(direction, dest, rtype) ==
    CASE rtype.kind = "RTuple" ->
            Concat([i \in 1..Len(rtype.types) |->
                       emit_ref_count(direction, <<"{}.f{}", dest, i - 1>>, rtype.types[i])])
      [] rtype = int_rprimitive -> << Line("CPyTagged_{}Ref(%s);", <<direction, dest>>) >>
      [] rtype.kind # "RTuple" /\ rtype # int_rprimitive /\ ~rtype.is_unboxed ->
            << Line("Py_{}REF(%s);", <<direction, dest>>) >>
      [] OTHER -> <<>>

\* IncRef(dest, typ) or DecRef(dest, typ)
NewRefCountOp ==
    /\ emit_fn = "none"
    /\ \E dest \in Registers, typ \in RTypes, direction \in {"Inc", "Dec"} :
          /\ op' = typ
          /\ emit_result' = IF direction = "Inc" THEN IncRef(dest, typ) ELSE DecRef(dest, typ)
          /\ emit_fn' = IF direction = "Inc" THEN "IncRef" ELSE "DecRef"
    /\ UNCHANGED <<body, temp_counter, reg_types>>
    /\ UNCHANGED not_emit_vars

\* visit_inc_ref and visit_dec_ref, on the op constructed
VisitRefCountOp ==
    /\ emit_fn \in {"IncRef", "DecRef"}
    /\ emit_result.raised = "none"
    /\ op' = emit_result.value
    /\ body' = body \o emit_ref_count(IF emit_fn = "IncRef" THEN "Inc" ELSE "Dec",
                                       reg(emit_result.value.dest),
                                       emit_result.value.target_type)
    /\ emit_fn' = IF emit_fn = "IncRef" THEN "visit_inc_ref" ELSE "visit_dec_ref"
    /\ emit_result' = Returned(<<>>)
    /\ UNCHANGED <<temp_counter, reg_types>>
    /\ UNCHANGED not_emit_vars

NextEmit ==
    \/ CUndefinedValueCall
    \/ CErrorValueCall
    \/ VisitLoadInt
    \/ VisitLoadErrorValue
    \/ VisitBranch
    \/ InvertBranch
    \/ VisitPrimitiveOp
    \/ NewRefCountOp
    \/ VisitRefCountOp

SpecEmit == InitEmit /\ [][NextEmit]_vars

\* C9: asking a tuple type for its undefined or error value raises an
\* assertion, and emitting LoadErrorValue for a tuple type succeeds: it
\* declares a temporary aggregate whose i-th field is the undefined value of
\* the i-th item type and assigns it to the destination.
TupleErrorValueByTemporary ==
    /\ (emit_fn \in {"c_undefined_value", "c_error_value"} /\ op.kind = "RTuple")
          => emit_result = AssertionError
    /\ (emit_fn = "visit_load_error_value" /\ op.rtype.kind = "RTuple")
          => /\ emit_result.raised = "none"
             /\ Len(body) = 2
             /\ body[1][1] = "%s %s = { %s };"
             /\ Len(body[1][4]) = Len(op.rtype.types)
             /\ \A i \in 1..Len(op.rtype.types) :
                   Returned(body[1][4][i]) = c_undefined_value(op.rtype.types[i])
             /\ body[2] = Line("%s = %s;", <<reg(op.dest), body[1][3]>>)

\* C10: LoadInt of the literal v emits the assignment of 2*v, an even
\* number, to the destination register.
LoadIntStoresDoubled ==
    emit_fn = "visit_load_int" =>
        /\ Len(body) = 1
        /\ body[1][1] = "%s = %d;"
        /\ body[1][2] = reg(op.dest)
        /\ body[1][3] = 2 * op.value
        /\ body[1][3] % 2 = 0

\* The literal 21 was emitted as 42.
Literal21Emitted ==
    /\ emit_fn = "visit_load_int"
    /\ op.value = 21
    /\ body[1][3] = 42

\* The positions in the body of the lines of the given format.
BodyLines(fmt) == {i \in 1..Len(body) : body[i][1] = fmt}

\* C20: the code emitted for a Branch contains the traceback call, with the
\* source path, the enclosing function's name and the branch's own line, iff
\* the branch has a traceback entry; the call is inside the taken side,
\* after the test and before the jump to the true label, and so before the
\* else side that jumps to the false label; and the condition is wrapped in
\* unlikely() iff the branch has a traceback entry.
BranchTracebackIffEntry ==
    emit_fn = "visit_branch" =>
        LET has_entry  == op.traceback_entry # NoTraceback
            tracebacks == BodyLines("CPy_AddTraceback(\"%s\", \"%s\", %d, _globals);")
        IN  /\ (tracebacks # {}) <=> has_entry
            /\ \A i \in BodyLines("if ({}) {{") :
                  (body[i][2][1] = "unlikely({})") <=> has_entry
            /\ \A t \in tracebacks :
                  /\ body[t] = Line("CPy_AddTraceback(\"%s\", \"%s\", %d, _globals);",
                                    <<source_path, func_name, op.line>>)
                  /\ t > 1 /\ body[t - 1][1] = "if ({}) {{"
                  /\ t < Len(body) /\ body[t + 1] = Line("goto %s;", <<label(op.true)>>)
                  /\ \A e \in BodyLines("} else") : t < e
                  /\ \A f \in BodyLines("    goto %s;") :
                        t < f /\ body[f] = Line("    goto %s;", <<label(op.false)>>)

\* The values the operands of a branch take.
MaxValue == 1

OperandValues == (0 - MaxValue)..MaxValue

\* What the C expression of a condition evaluates to when the left and right
\* registers hold the given values: Py_None is the value 0 and the error
\* value of the register's type is the value -1.
RECURSIVE cond_holds(_, _, _)
cond_holds(cond, left_value, right_value) ==
    LET compared(fn) ==
            CASE fn = "CPyTagged_IsEq" -> left_value = right_value
              [] fn = "CPyTagged_IsNe" -> left_value # right_value
              [] fn = "CPyTagged_IsLt" -> left_value < right_value
              [] fn = "CPyTagged_IsLe" -> left_value <= right_value
              [] fn = "CPyTagged_IsGt" -> left_value > right_value
              [] fn = "CPyTagged_IsGe" -> left_value >= right_value
    IN  CASE cond[1] = "unlikely({})" -> cond_holds(cond[2], left_value, right_value)
          [] cond[1] = "{}({})" -> (cond[2] = "!") # (left_value # 0)
          [] cond[1] = "{} {} Py_None" -> (cond[3] = "!=") # (left_value = 0)
          [] cond[1] \in {"{} {} {}", "{}.f0 {} {}"} -> (cond[3] = "!=") # (left_value = 0 - 1)
          [] cond[1] = "%s%s(%s, %s)" -> (cond[2] = "!") # compared(cond[3])

\* The label the lines of a visited branch jump to for the given operands.
label_reached(lines, left_value, right_value) ==
    IF cond_holds(lines[1][2], left_value, right_value)
    THEN lines[CHOOSE i \in 1..Len(lines) : lines[i][1] = "goto %s;"][2]
    ELSE lines[CHOOSE i \in 1..Len(lines) : lines[i][1] = "    goto %s;"][2]

\* C21: the code emitted for a branch jumps to the true label on the then
\* side and to the false label on the else side, and a negation changes
\* the condition alone; invert swaps the labels, toggles the negation flag
\* and changes nothing else, twice it restores the op, and for every value
\* of the operands the code emitted before and after invert reaches the
\* same label.
InvertKeepsLabelReached ==
    (emit_fn \in {"visit_branch", "invert"} /\ emit_result.raised = "none") =>
        LET lines   == visit_branch(op, reg_types).lines
            negated == visit_branch([op EXCEPT !.negated = ~op.negated], reg_types).lines
            n       == Len(lines)
        IN  /\ SubSeq(body, Len(body) - n + 1, Len(body)) = lines
            /\ lines[n - 2] = Line("goto %s;", <<label(op.true)>>)
            /\ lines[n - 1] = Line("} else", <<>>)
            /\ lines[n] = Line("    goto %s;", <<label(op.false)>>)
            /\ Tail(negated) = Tail(lines)
            /\ \A l, r \in OperandValues :
                  cond_holds(negated[1][2], l, r) = ~cond_holds(lines[1][2], l, r)
            /\ invert(op).true = op.false
            /\ invert(op).false = op.true
            /\ invert(op).negated = ~op.negated
            /\ [invert(op) EXCEPT !.true = op.true, !.false = op.false,
                                  !.negated = op.negated] = op
            /\ invert(invert(op)) = op
            /\ emit_fn = "invert" =>
                  /\ Len(body) = 2 * n
                  /\ SubSeq(body, 1, n) = visit_branch(invert(op), reg_types).lines
                  /\ \A l, r \in OperandValues :
                        label_reached(SubSeq(body, 1, n), l, r)
                           = label_reached(SubSeq(body, n + 1, 2 * n), l, r)

\* A negated integer comparison with a traceback entry was visited, inverted
\* and visited again.
InvertedComparisonVisited ==
    /\ emit_fn = "invert"
    /\ emit_result.raised = "none"
    /\ op.op = "INT_LT"
    /\ ~op.negated
    /\ op.traceback_entry # NoTraceback
    /\ Len(body) = 10

\* The condition of the 'if' line a visited branch emitted, without unlikely().
EmittedCondition ==
    LET cond == body[CHOOSE i \in 1..Len(body) : body[i][1] = "if ({}) {{"][2]
    IN  IF cond[1] = "unlikely({})" THEN cond[2] ELSE cond

\* C22: an IS_ERROR branch gets a condition whatever the type of its
\* register: a register of a type that is no tuple is compared with the
\* error value of the type, a register of a tuple type has its first field
\* compared with the error value of the first item type, with == when the
\* branch is not negated and != when it is.
IsErrorConditionForEveryType ==
    (emit_fn = "visit_branch" /\ op.op = "IS_ERROR") =>
        LET typ     == reg_types[op.left]
            compare == IF op.negated THEN "!=" ELSE "=="
        IN  /\ emit_result.raised = "none"
            /\ Len(body) > 0
            /\ IF typ.kind = "RTuple"
               THEN /\ EmittedCondition[1] = "{}.f0 {} {}"
                    /\ EmittedCondition[2] = reg(op.left)
                    /\ EmittedCondition[3] = compare
                    /\ Returned(EmittedCondition[4]) = c_error_value(typ.types[1])
               ELSE /\ EmittedCondition[1] = "{} {} {}"
                    /\ EmittedCondition[2] = reg(op.left)
                    /\ EmittedCondition[3] = compare
                    /\ Returned(EmittedCondition[4]) = c_error_value(typ)

\* What running the lines of a list construction does when PyList_New
\* returns a list (allocated) or NULL: how many references each register's
\* object gained, and the register stored in each slot filled.  The lines
\* between "if (dest != NULL) {" and "}" run when the list was allocated;
\* PyList_SET_ITEM stores the reference it is given and takes none.
RECURSIVE run_lines(_, _, _)
run_lines(lines, allocated, st) ==
    IF lines = <<>> THEN st
    ELSE LET line == Head(lines)
             runs == ~st.guarded \/ allocated
             next ==
                CASE line[1] = "if (%s != NULL) {" -> [st EXCEPT !.guarded = TRUE]
                  [] line[1] = "}" -> [st EXCEPT !.guarded = FALSE]
                  [] line[1] = "Py_INCREF(%s);" /\ runs ->
                        [st EXCEPT !.gained[line[2][2]] = @ + 1]
                  [] line[1] = "PyList_SET_ITEM(%s, %s, %s);" /\ runs ->
                        [st EXCEPT !.slots = @ \cup {<<line[3], line[4][2]>>}]
                  [] OTHER -> st
         IN  run_lines(Tail(lines), allocated, next)

ListRun(allocated) ==
    run_lines(body, allocated,
              [guarded |-> FALSE, gained |-> [r \in Registers |-> 0], slots |-> {}])

\* C23: the list is allocated with as many slots as the op has sources,
\* one retain is emitted for each occurrence of a source, every slot fill
\* is inside the block that runs when the allocation returned a list and
\* fills slot i with the i-th source, and no slot is filled when the
\* allocation failed.
ListFilledUnderGuard ==
    (emit_fn = "visit_primitive_op" /\ op.desc = "NEW_LIST") =>
        LET n      == Len(op.args)
            guard  == CHOOSE i \in 1..Len(body) : body[i][1] = "if (%s != NULL) {"
            closed == CHOOSE i \in 1..Len(body) : body[i][1] = "}"
        IN  /\ body[1] = Line("%s = PyList_New(%d); ", <<reg(op.dest), n>>)
            /\ \A r \in Registers :
                  Cardinality({i \in 1..Len(body) : body[i] = Line("Py_INCREF(%s);", <<reg(r)>>)})
                     = Cardinality({i \in 1..n : op.args[i] = r})
            /\ body[guard] = Line("if (%s != NULL) {", <<reg(op.dest)>>)
            /\ \A i \in 1..n :
                  /\ body[guard + i] =
                        Line("PyList_SET_ITEM(%s, %s, %s);", <<reg(op.dest), i - 1, reg(op.args[i])>>)
                  /\ guard + i < closed
            /\ \A i \in 1..Len(body) :
                  body[i][1] = "PyList_SET_ITEM(%s, %s, %s);" => (guard < i /\ i < closed)
            /\ ListRun(TRUE).slots = {<<i - 1, op.args[i]>> : i \in 1..n}
            /\ ListRun(FALSE).slots = {}

\* A list of two slots was constructed from one register, twice.
ListOfRepeatedSource ==
    /\ emit_fn = "visit_primitive_op"
    /\ op.desc = "NEW_LIST"
    /\ Len(op.args) = 2
    /\ op.args[1] = op.args[2]
    /\ Len(body) = 7

\* C28: the lines of a list construction keep reference counts balanced:
\* when the list was allocated every source gained one reference for each
\* slot it is stored in, and when the allocation failed no source gained a
\* reference.
ListReferencesBalanced ==
    (emit_fn = "visit_primitive_op" /\ op.desc = "NEW_LIST") =>
        /\ \A r \in Registers :
              ListRun(TRUE).gained[r]
                 = Cardinality({slot \in ListRun(TRUE).slots : slot[2] = r})
        /\ \A r \in Registers : ListRun(FALSE).gained[r] = 0

\* C24: the construction of an IncRef or a DecRef with a type that is not
\* reference counted (bool, or a tuple none of whose items is reference
\* counted) raises an assertion, so every op visit_inc_ref or visit_dec_ref
\* is called with has a reference counted type.
RefCountOpsOfCountedTypesOnly ==
    /\ emit_fn \in {"IncRef", "DecRef"} =>
          /\ emit_result = AssertionError <=> ~op.is_refcounted
          /\ op = bool_rprimitive => emit_result = AssertionError
          /\ (op.kind = "RTuple" /\ \A i \in 1..Len(op.types) : ~op.types[i].is_refcounted)
                => emit_result = AssertionError
          /\ emit_result.raised = "none" => emit_result.value.target_type = op
    /\ emit_fn \in {"visit_inc_ref", "visit_dec_ref"} => op.target_type.is_refcounted

\* The construction of a DecRef with a tuple of two bools raised.
RefCountOpRefused ==
    /\ emit_fn = "DecRef"
    /\ op = RTuple(<<bool_rprimitive, bool_rprimitive>>)
    /\ emit_result = AssertionError

(***************************************************************************)
(* Ops, BasicBlock, FuncIR and format_blocks (ops.py:410-567, 1164-1214,   *)
(* 1336-1354).                                                             *)
(*                                                                         *)
(* A BasicBlock starts with an empty op list.  The pass that fills the     *)
(* blocks is not part of these sources; it is modelled by its output       *)
(* contract: ops are appended to the last block until a control-exit op    *)
(* closes it, a new block is started only after that, and a FuncIR is      *)
(* constructed from closed blocks only.                                    *)
(***************************************************************************)
MaxBlocks == 2

MaxOps == 3

BasicBlock(block_label) == [label |-> block_label, ops |-> <<>>]

FuncIR(name, class_name, args, ret_type, blks, fn_env) ==
    [kind |-> "FuncIR", name |-> name, class_name |-> class_name,
     cname |-> IF class_name = "" THEN <<name>> ELSE <<class_name, "___", name>>,
     args |-> args, ret_type |-> ret_type, blocks |-> blks, env |-> fn_env]

\* A block formatter that does not know Unreachable as an exit.
is_block_exit_without_unreachable(o) == o.kind \in {"Goto", "Branch", "Return"}

\* "isinstance(block.ops[-1], (Goto, Branch, Return, Unreachable))"
is_block_exit(o) == o.kind \in {"Goto", "Branch", "Return", "Unreachable"}

\* The lines format_blocks appends for blocks[i].
format_block(blks, i) ==
    LET block == blks[i]
        hide  == /\ Last(block.ops).kind = "Goto"
                 /\ i + 1 <= Len(blks)
                 /\ Last(block.ops).label = blks[i + 1].label
        ops   == IF hide THEN Front(block.ops) ELSE block.ops
    IN  << Line("%l:", <<block.label>>) >>
        \o [j \in 1..Len(ops) |-> Line("    ", <<to_str(ops[j])>>)]
        \o IF ~is_block_exit(Last(block.ops))
           THEN << Line("    [MISSING BLOCK EXIT OPCODE]", <<>>) >>
           ELSE <<>>

\* format_blocks: "ops[-1]" raises IndexError on a block without ops.
format_blocks(blks) ==
    IF \E i \in 1..Len(blks) : blks[i].ops = <<>>
    THEN IndexError
    ELSE Returned(Concat([i \in 1..Len(blks) |-> format_block(blks, i)]))

Labels == 0..(MaxBlocks - 1)

\* The ops the blocks of the model are built from: every control-exit kind
\* and an op that is not a control exit.
BlockOps ==
    {Goto(l) : l \in Labels}
    \cup {Branch(0, INVALID_REGISTER, 0, 1, "BOOL_EXPR", 1), Return(0), Unreachable,
          LoadInt(0, 1)}

\* The control-exit ops of the IR data model.
IsControlExit(o) == o.kind \in {"Goto", "Branch", "Return", "Unreachable"}

\* A block the builder has ended with a control-exit op.
IsClosed(block) == block.ops # <<>> /\ IsControlExit(Last(block.ops))

InitBlocks ==
    /\ IdleBlocks
    /\ IdleEnv
    /\ IdleModuleIR
    /\ IdleToposort
    /\ IdleSameType
    /\ IdleSlot
    /\ IdleGenerator
    /\ IdleEmit
    /\ IdleNative
    /\ IdleCompile
    /\ IdleLoad

\* BasicBlock(label), appended to the list of blocks
NewBlock ==
    /\ func_ir = NoArg
    /\ formatted = NoResult
    /\ Len(blocks) < MaxBlocks
    /\ IF blocks = <<>> THEN TRUE ELSE IsClosed(Last(blocks))
    /\ blocks' = Append(blocks, BasicBlock(Len(blocks)))
    /\ UNCHANGED <<func_ir, formatted>>
    /\ UNCHANGED not_block_vars

\* block.ops.append(op), on the last block
AddOp ==
    /\ func_ir = NoArg
    /\ formatted = NoResult
    /\ blocks # <<>>
    /\ ~IsClosed(Last(blocks))
    /\ Len(Last(blocks).ops) < MaxOps
    /\ \E o \in BlockOps :
          blocks' = [blocks EXCEPT ![Len(blocks)].ops = Append(@, o)]
    /\ UNCHANGED <<func_ir, formatted>>
    /\ UNCHANGED not_block_vars

\* FuncIR(name, class_name, args, ret_type, blocks, env)
NewFuncIR ==
    /\ func_ir = NoArg
    /\ blocks # <<>>
    /\ \A i \in 1..Len(blocks) : IsClosed(blocks[i])
    /\ func_ir' = FuncIR("f", "", <<>>, int_rprimitive, blocks, NoArg)
    /\ UNCHANGED <<blocks, formatted>>
    /\ UNCHANGED not_block_vars

\* format_blocks(blocks, env)
FormatBlocks ==
    /\ formatted = NoResult
    /\ formatted' = format_blocks(blocks)
    /\ UNCHANGED <<blocks, func_ir>>
    /\ UNCHANGED not_block_vars

NextBlocks ==
    \/ NewBlock
    \/ AddOp
    \/ NewFuncIR
    \/ FormatBlocks

SpecBlocks == InitBlocks /\ [][NextBlocks]_vars

\* The position in lines of the label line of the i-th block formatted.
RECURSIVE LabelLine(_, _, _)
LabelLine(lines, i, from) ==
    IF lines[from][1] = "%l:"
    THEN IF i = 1 THEN from ELSE LabelLine(lines, i - 1, from + 1)
    ELSE LabelLine(lines, i, from + 1)

\* Whether the lines formatted for the i-th of n blocks end with the report
\* of a missing exit.
MissingExitReported(lines, i, n) ==
    LET end == IF i = n THEN Len(lines) ELSE LabelLine(lines, i + 1, 1) - 1
    IN  lines[end][1] = "    [MISSING BLOCK EXIT OPCODE]"

MissingExitReports(lines) ==
    Cardinality({j \in 1..Len(lines) : lines[j][1] = "    [MISSING BLOCK EXIT OPCODE]"})

MaxRegs == 4

None == [kind |-> "None"]

KeyError == [raised |-> "KeyError", value |-> <<>>]

CRegister(n) == [kind |-> "CRegister", value |-> n]

Var(name) == [kind |-> "Var", name |-> name]

\* Another Var object of the same name: a variable of another scope.  Vars
\* are dict keys by identity.
OtherVar(name) == [kind |-> "Var", name |-> name, scope |-> 2]

\* The variables given to add_local and lookup: two names, a second
\* variable named like the first, and a variable named like a temporary.
Vars == {Var("x"), Var("y"), OtherVar("x"), Var("r0")}

\* The RegisterOps given to add_op: one without a result type and two with.
RegisterOp(id, type) == [kind |-> "RegisterOp", id |-> id, type |-> type]

EnvOps ==
    {RegisterOp(1, None), RegisterOp(2, int_rprimitive), RegisterOp(3, object_rprimitive)}

EnvTypes == {int_rprimitive, object_rprimitive}

\* len(self.names)
num_names(e) == Len(e.regs)

\* Environment.add: assigning to a key the dicts already have replaces the
\* value and keeps the key's place.
add(e, r, name, typ) ==
    LET entry == [reg |-> r, index |-> num_names(e), name |-> name, type |-> typ]
    IN  IF \E i \in 1..Len(e.regs) : e.regs[i].reg = r
        THEN [e EXCEPT !.regs = [i \in 1..Len(e.regs) |->
                                    IF e.regs[i].reg = r THEN entry ELSE e.regs[i]]]
        ELSE [e EXCEPT !.regs = Append(e.regs, entry)]

\* "self.symtable[var] = reg"
bind(symtable, var, r) ==
    [v \in DOMAIN symtable \cup {var} |-> IF v = var THEN r ELSE symtable[v]]

\* Environment.add_local: the environment after the call and the register returned
add_local(e, var, typ) ==
    LET r == CRegister(num_names(e))
    IN  [env |-> add([e EXCEPT !.symtable = bind(e.symtable, var, r)], r, <<var.name>>, typ),
         result |-> Returned(r)]

\* Environment.lookup
lookup(e, var) ==
    IF var \in DOMAIN e.symtable THEN Returned(e.symtable[var]) ELSE KeyError

\* Environment.add_temp
add_temp(e, typ) ==
    LET r == CRegister(num_names(e))
    IN  [env |-> [add(e, r, <<"r%d", e.temp_index>>, typ)
                     EXCEPT !.temp_index = e.temp_index + 1],
         result |-> Returned(r)]

\* Environment.add_op
add_op(e, r) ==
    IF r.type = None
    THEN [env |-> e, result |-> Returned(None)]
    ELSE [env |-> [add(e, r, <<"r%d", e.temp_index>>, r.type)
                      EXCEPT !.temp_index = e.temp_index + 1],
          result |-> Returned(None)]

InitEnv ==
    /\ IdleEnv
    /\ IdleBlocks
    /\ IdleModuleIR
    /\ IdleToposort
    /\ IdleSameType
    /\ IdleSlot
    /\ IdleGenerator
    /\ IdleEmit
    /\ IdleNative
    /\ IdleCompile
    /\ IdleLoad

\* What a call leaves in the variables of the model.
EnvCall(fn, arg, call) ==
    /\ env_fn' = fn
    /\ env_arg' = arg
    /\ env_before' = env
    /\ env' = call.env
    /\ env_result' = call.result
    /\ UNCHANGED not_env_vars

AddLocalCall ==
    /\ num_names(env) < MaxRegs
    /\ \E var \in Vars, typ \in EnvTypes :
          EnvCall("add_local", var, add_local(env, var, typ))

LookupCall ==
    \E var \in Vars :
       EnvCall("lookup", var, [env |-> env, result |-> lookup(env, var)])

AddTempCall ==
    /\ num_names(env) < MaxRegs
    /\ \E typ \in EnvTypes :
          EnvCall("add_temp", typ, add_temp(env, typ))

AddOpCall ==
    /\ num_names(env) < MaxRegs
    /\ env.temp_index < MaxRegs
    /\ \E r \in EnvOps :
          EnvCall("add_op", r, add_op(env, r))

NextEnv ==
    \/ AddLocalCall
    \/ LookupCall
    \/ AddTempCall
    \/ AddOpCall

SpecEnv == InitEnv /\ [][NextEnv]_vars

\* The indexes of the registers of an environment, in insertion order.
Indexes(e) == [i \in 1..Len(e.regs) |-> e.regs[i].index]

\* C12: after any sequence of add_local, add_temp and add_op calls the
\* indexes of the registers are exactly 0..N-1, each once, where N is the
\* number of registers, and no call lowers the number of registers.
IndexesContinuous ==
    /\ {Indexes(env)[i] : i \in 1..num_names(env)} = 0..(num_names(env) - 1)
    /\ \A i, j \in 1..num_names(env) : Indexes(env)[i] = Indexes(env)[j] => i = j
    /\ num_names(env) >= num_names(env_before)

\* The names of the temporaries of an environment, in insertion order.
RECURSIVE TempNames(_)
TempNames(regs) ==
    IF regs = <<>> THEN <<>>
    ELSE IF Last(regs).name[1] = "r%d"
         THEN Append(TempNames(Front(regs)), Last(regs).name)
         ELSE TempNames(Front(regs))

\* C13: the k-th temporary created by add_temp or add_op is named r<k-1>,
\* and no add_local, add_temp or add_op call changes the name, the type or
\* the index of a register added earlier.
TemporariesNamedInOrder ==
    /\ \A k \in 1..Len(TempNames(env.regs)) : TempNames(env.regs)[k] = <<"r%d", k - 1>>
    /\ env_fn \in {"add_local", "add_temp", "add_op"} =>
          \A i \in 1..Len(env_before.regs) :
             \E j \in 1..Len(env.regs) : env.regs[j] = env_before.regs[i]

\* C14: add_local for a variable that is already in the symbol table fails
\* with an assertion, adds no register and does not rebind the variable.
AddLocalAssertsUnbound ==
    (env_fn = "add_local" /\ env_arg \in DOMAIN env_before.symtable) =>
        /\ env_result = AssertionError
        /\ env = env_before

\* 'r%d' % n, for the temporaries an environment of the model can hold
TemporaryNames == <<"r0", "r1", "r2", "r3", "r4", "r5", "r6", "r7">>

\* The string self.names holds for a register: var.name() of a local,
\* 'r%d' % temp_index of a temporary.
display_name(name) == IF name[1] = "r%d" THEN TemporaryNames[name[2] + 1] ELSE name[1]

\* C30: after any sequence of add_local, add_temp and add_op calls the
\* display names of the registers are pairwise distinct, so that the
\* declarations emitted per register never declare one name twice.
DisplayNamesDistinct ==
    \A i, j \in 1..num_names(env) :
        display_name(env.regs[i].name) = display_name(env.regs[j].name) => i = j

(***************************************************************************)
(* generate_native_function (emitfunc.py:12-46).                           *)
(*                                                                         *)
(* The function reads fn.env.names[i] and fn.env.types[i] with i an int:   *)
(* the registers of the functions of the model are CRegisters, added by    *)
(* add_local for the arguments and add_temp for the rest, so that register *)
(* i is the key i of the dicts.  Lines are kept without their indentation. *)
(***************************************************************************)
MaxTemps == 2

MaxFuncOps == 4

REG_PREFIX == "cpy_r_"

NATIVE_PREFIX == "CPyDef_"

\* RType.ctype_spaced: "Adds a space after ctype for non-pointers."
ctype_spaced(t) == <<t.ctype, IF t.ctype = "PyObject *" THEN "" ELSE " ">>

native_function_header(fn) ==
    LET args == [i \in 1..Len(fn.args) |->
                    <<"{}{}{}", ctype_spaced(fn.args[i].type), REG_PREFIX, fn.args[i].name>>]
    IN  <<"static {ret_type}{prefix}{name}({args})", ctype_spaced(fn.ret_type),
          NATIVE_PREFIX, fn.cname, IF args = <<>> THEN <<"void">> ELSE args>>

\* Environment.num_regs: the number of registers
num_regs(e) == num_names(e)

\* fn.env.names[i] and fn.env.types[i]: the entry of the dicts with key i
env_entry(e, i) == e.regs[CHOOSE k \in 1..Len(e.regs) : e.regs[k].reg = CRegister(i)]

\* Emitter.emit_label
emit_label(l) == Line("{}: ;", <<label(l)>>)

\* An op whose description emits a declaration of a temporary and a line.
PrimitiveOp2(dest) == [kind |-> "PrimitiveOp2", dest |-> dest, desc |-> "new_list"]

\* visit_primitive_op2: "op.desc.emit(self, op)"
visit_primitive_op2(o, st) ==
    LET tmp == temp_name(st.counter + 1)
    IN  [st EXCEPT !.counter = @ + 1,
                   !.declarations = Append(@, Line("PyObject *{};", <<tmp>>)),
                   !.body = @ \o << Line("{} = PyList_New(0);", <<tmp>>),
                                    Line("{} = {};", <<reg(o.dest), tmp>>) >>]

\* op.accept(visitor): the emitters after the visit of one op.  Unreachable
\* is visited by OpVisitor.visit_unreachable, which emits nothing.
accept(o, st, types) ==
    CASE o.kind = "Goto"         -> [st EXCEPT !.body = @ \o visit_goto(o)]
      [] o.kind = "Branch"       -> [st EXCEPT !.body = @ \o visit_branch(o, types).lines]
      [] o.kind = "Return"       -> [st EXCEPT !.body = @ \o visit_return(o)]
      [] o.kind = "Unreachable"  -> st
      [] o.kind = "LoadInt"      -> [st EXCEPT !.body = @ \o visit_load_int(o)]
      [] o.kind = "PrimitiveOp2" -> visit_primitive_op2(o, st)

\* "for op in block.ops: op.accept(visitor)"
RECURSIVE visit_ops(_, _, _)
visit_ops(ops, st, types) ==
    IF ops = <<>> THEN st
    ELSE visit_ops(Tail(ops), accept(Head(ops), st, types), types)

\* "for block in fn.blocks: body.emit_label(block.label); ..."
RECURSIVE visit_blocks(_, _, _)
visit_blocks(blks, st, types) ==
    IF blks = <<>> THEN st
    ELSE visit_blocks(Tail(blks),
                      visit_ops(Head(blks).ops,
                                [st EXCEPT !.body = Append(@, emit_label(Head(blks).label))],
                                types),
                      types)

\* A loop over the registers that starts at register 0.
first_declared_register_zero(fn) == 0

\* "range(len(fn.args), fn.env.num_regs())": the first register declared
first_declared_register(fn) == Len(fn.args)

\* The declarations of the registers that are not arguments.
register_declarations(fn) ==
    LET first == first_declared_register(fn)
    IN  [k \in 1..(num_regs(fn.env) - first) |->
            Line("{ctype} {prefix}{name};",
                 <<env_entry(fn.env, first + k - 1).type.ctype, REG_PREFIX,
                   env_entry(fn.env, first + k - 1).name>>)]

\* generate_native_function: the two emitters when the function is walked,
\* and the emitter they are appended to, declarations first.
generate_native_function(fn, emitter) ==
    LET types  == [i \in 0..(num_regs(fn.env) - 1) |-> env_entry(fn.env, i).type]
        start  == [declarations |-> << Line("{} {{", <<native_function_header(fn)>>) >>
                                    \o register_declarations(fn),
                   body |-> <<>>,
                   counter |-> 0]
        walked == visit_blocks(fn.blocks, start, types)
        closed == Append(walked.body, Line("}", <<>>))
    IN  [declarations |-> walked.declarations,
         body |-> closed,
         emitter |-> emitter \o walked.declarations \o closed]

\* The arguments of the functions of the model: the first n of these.
NativeArgNames == <<"x", "y", "z", "w">>

NativeArgs(n) ==
    [i \in 1..n |-> RuntimeArg(NativeArgNames[i],
                               IF i % 2 = 1 THEN int_rprimitive ELSE object_rprimitive)]

\* The environment of a function: a local for each argument, then temporaries.
RECURSIVE EnvOf(_, _)
EnvOf(args, temps) ==
    IF temps > 0
    THEN add_temp(EnvOf(args, temps - 1),
                  IF temps % 2 = 1 THEN object_rprimitive ELSE int_rprimitive).env
    ELSE IF args = <<>>
         THEN NewEnvironment
         ELSE add_local(EnvOf(Front(args), 0), Var(Last(args).name), Last(args).type).env

\* The ops of the functions of the model.
NativeOps ==
    {LoadInt(0, 1), PrimitiveOp2(0), Goto(1), Return(0), Unreachable,
     Branch(0, INVALID_REGISTER, 0, 1, "BOOL_EXPR", 7)}

\* The op lists of n ops that end in their only control-exit op.
ClosedOpLists(n) ==
    {ops \in [1..n -> NativeOps] :
        /\ IsControlExit(ops[n])
        /\ \A j \in 1..(n - 1) : ~IsControlExit(ops[j])}

\* The lists of at most k op lists that have at most n ops in all.
RECURSIVE OpListLists(_, _)
OpListLists(k, n) ==
    {<<>>} \cup
    IF k = 0 THEN {}
    ELSE UNION {{<<ops>> \o rest : ops \in ClosedOpLists(m), rest \in OpListLists(k - 1, n - m)} :
                   m \in 1..(IF n < MaxOps THEN n ELSE MaxOps)}

NativeFuncIRs ==
    {FuncIR("f", "", NativeArgs(nargs), int_rprimitive,
            [i \in 1..Len(lists) |-> [label |-> i - 1, ops |-> lists[i]]],
            EnvOf(NativeArgs(nargs), temps)) :
        nargs \in 0..MaxArgs, temps \in 0..MaxTemps,
        lists \in OpListLists(MaxBlocks, MaxFuncOps) \ {<<>>}}

InitNative ==
    /\ func = NoArg
    /\ fn_declarations = <<>>
    /\ fn_body = <<>>
    /\ fn_emitter \in {<<>>, << Line("", <<>>) >>}
    /\ IdleToposort
    /\ IdleSameType
    /\ IdleSlot
    /\ IdleGenerator
    /\ IdleEmit
    /\ IdleIR
    /\ IdleCompile
    /\ IdleLoad

\* generate_native_function(fn, emitter, source_path)
GenerateNativeFunctionCall ==
    /\ func = NoArg
    /\ \E fn \in {f \in NativeFuncIRs : num_regs(f.env) > 0} :
          LET generated == generate_native_function(fn, fn_emitter)
          IN  /\ func' = fn
              /\ fn_declarations' = generated.declarations
              /\ fn_body' = generated.body
              /\ fn_emitter' = generated.emitter
    /\ UNCHANGED not_native_vars

NextNative == GenerateNativeFunctionCall

SpecNative == InitNative /\ [][NextNative]_vars

\* The lines generate_native_function appended to the emitter.
AppendedText ==
    SubSeq(fn_emitter, Len(fn_emitter) - Len(fn_declarations) - Len(fn_body) + 1,
           Len(fn_emitter))

\* The header, a register declaration or a declaration emitted by an op.
IsDeclarationLine(l) == l[1] \in {"{} {{", "{ctype} {prefix}{name};", "PyObject *{};"}

IsBodyLine(l) == ~IsDeclarationLine(l)

\* The number of temporaries named before the j-th op of the i-th block is visited.
TemporariesBefore(fn, i, j) ==
    Cardinality({p \in (1..Len(fn.blocks)) \X (1..MaxOps) :
                    /\ p[1] < i \/ (p[1] = i /\ p[2] < j)
                    /\ p[2] <= Len(fn.blocks[p[1]].ops)
                    /\ fn.blocks[p[1]].ops[p[2]].kind = "PrimitiveOp2"})

\* The body lines of the j-th op of the i-th block, visited on its own.
Rendering(fn, i, j) ==
    accept(fn.blocks[i].ops[j],
           [declarations |-> <<>>, body |-> <<>>, counter |-> TemporariesBefore(fn, i, j)],
           <<>>).body

\* C19: the text appended for a function is the header, then one
\* declaration for each register index from the number of arguments up to
\* the number of registers, in increasing order, and none for an argument;
\* then for each block in list order its label and the renderings of its
\* ops in list order; every declaration line, those emitted by ops
\* included, precedes every body line.
NativeFunctionText ==
    func # NoArg =>
        LET text  == AppendedText
            nargs == Len(func.args)
            nregs == Len(func.env.regs)
        IN  /\ text[1] = Line("{} {{", <<native_function_header(func)>>)
            /\ \A i \in nargs..(nregs - 1) :
                  \E k \in 1..Len(func.env.regs) :
                     /\ func.env.regs[k].index = i
                     /\ text[2 + i - nargs] =
                           Line("{ctype} {prefix}{name};",
                                <<func.env.regs[k].type.ctype, "cpy_r_", func.env.regs[k].name>>)
            /\ {i \in 1..Len(text) : text[i][1] = "{ctype} {prefix}{name};"}
                  = 2..(1 + nregs - nargs)
            /\ \A i, j \in 1..Len(text) :
                  (IsDeclarationLine(text[i]) /\ IsBodyLine(text[j])) => i < j
            /\ SelectSeq(text, IsBodyLine) =
                  Concat([i \in 1..Len(func.blocks) |->
                             << Line("{}: ;", <<label(func.blocks[i].label)>>) >>
                             \o Concat([j \in 1..Len(func.blocks[i].ops) |->
                                           Rendering(func, i, j)])])
                  \o << Line("}", <<>>) >>

\* A function of one argument and two more registers was generated, appended
\* to an emitter that had a line; its two blocks hold an op that emits a
\* declaration of its own.
NativeFunctionWithOpDeclaration ==
    /\ func # NoArg
    /\ Len(func.args) = 1
    /\ Len(func.env.regs) = 3
    /\ Len(func.blocks) = 2
    /\ \E j \in 1..Len(func.blocks[2].ops) : func.blocks[2].ops[j].kind = "PrimitiveOp2"
    /\ Len(fn_emitter) > Len(AppendedText)
    /\ Len(fn_declarations) = 4

(***************************************************************************)
(* The modules of the model.                                               *)
(***************************************************************************)
\* The names of the modules of a list, in list order.
ModuleNames == <<"m1", "m2", "m3">>

\* The functions of the model: f(x) returns its argument, g() returns a new list.
FuncF ==
    FuncIR("f", "", NativeArgs(1), int_rprimitive,
           << [label |-> 0, ops |-> <<Return(0)>>] >>, EnvOf(NativeArgs(1), 0))

FuncG ==
    FuncIR("g", "", <<>>, object_rprimitive,
           << [label |-> 0, ops |-> <<PrimitiveOp2(0), Return(0)>>] >>, EnvOf(<<>>, 1))

\* The ModuleIRs of the model: with no, one or two functions, with and
\* without a class, a second import and literals of the three kinds.
FunctionLists == {<<>>, <<FuncF>>, <<FuncF, FuncG>>}

ClassLists == {<<>>, <<[name |-> "C"]>>}

ImportLists == {<<"builtins">>, <<"builtins", "os">>}

LiteralLists ==
    {<<>>,
     <<[kind |-> "int", value |-> 5, symbol |-> "__integer_5"],
       [kind |-> "str", value |-> "s", symbol |-> "__unicode_0"],
       [kind |-> "float", value |-> 1, symbol |-> "__float_1"]>>}

ModuleIRs ==
    {[imports |-> i, literals |-> l, functions |-> f, classes |-> c] :
        i \in ImportLists, l \in LiteralLists, f \in FunctionLists, c \in ClassLists}

ModuleLists ==
    {[i \in 1..Len(irs) |-> <<ModuleNames[i], irs[i]>>] :
        irs \in UNION {[1..n -> ModuleIRs] : n \in 1..MaxModules}}

(***************************************************************************)
(* ModuleIR.__init__ (ops.py:1247-1258).                                   *)
(***************************************************************************)
MaxImports == 3

ImportNames == {"builtins", "os", "sys"}

\* The import lists given to the constructor: lists of distinct module names.
GivenImportLists ==
    {imps \in UNION {[1..n -> ImportNames] : n \in 0..MaxImports} :
        \A i, j \in 1..Len(imps) : imps[i] = imps[j] => i = j}

\* "self.imports = imports[:]; if 'builtins' not in self.imports:
\*      self.imports.insert(0, 'builtins')"
ModuleIR(imports, unicode_literals, functions, classes) ==
    [imports   |-> IF \E i \in 1..Len(imports) : imports[i] = "builtins"
                   THEN imports
                   ELSE <<"builtins">> \o imports,
     literals  |-> unicode_literals,
     functions |-> functions,
     classes   |-> classes]

InitModuleIR ==
    /\ IdleModuleIR
    /\ IdleBlocks
    /\ IdleEnv
    /\ IdleToposort
    /\ IdleSameType
    /\ IdleSlot
    /\ IdleGenerator
    /\ IdleEmit
    /\ IdleNative
    /\ IdleCompile
    /\ IdleLoad

NewModuleIR ==
    /\ module_ir = NoArg
    /\ \E imports \in GivenImportLists, l \in LiteralLists, f \in FunctionLists,
          c \in ClassLists :
          /\ given_imports' = imports
          /\ module_ir' = ModuleIR(imports, l, f, c)
    /\ UNCHANGED not_module_ir_vars

NextModuleIR == NewModuleIR

SpecModuleIR == InitModuleIR /\ [][NextModuleIR]_vars

\* A list without its occurrences of 'builtins'.
RECURSIVE WithoutBuiltins(_)
WithoutBuiltins(imps) ==
    IF imps = <<>> THEN <<>>
    ELSE IF imps[1] = "builtins"
         THEN WithoutBuiltins(Tail(imps))
         ELSE <<imps[1]>> \o WithoutBuiltins(Tail(imps))

\* C15: whatever import list the constructor is given (empty, without
\* 'builtins', with 'builtins' at any position), the module's import list
\* starts with 'builtins', contains it once, and has the other imports in
\* the order given.
BuiltinsFirstOnce ==
    module_ir # NoArg =>
        /\ module_ir.imports # <<>>
        /\ module_ir.imports[1] = "builtins"
        /\ Cardinality({i \in 1..Len(module_ir.imports) :
                           module_ir.imports[i] = "builtins"}) = 1
        /\ WithoutBuiltins(module_ir.imports) = WithoutBuiltins(given_imports)

(***************************************************************************)
(* ModuleGenerator.generate_c_for_modules (emitmodule.py:79-122).          *)
(*                                                                         *)
(* context.declarations is the list of its entries in insertion order; the *)
(* name of an entry is kept as a line, so that the name of an import       *)
(* (c_module_name) and the name of a literal's symbol compare.             *)
(* generate_class, wrapper_function_header and generate_wrapper_function   *)
(* (emitclass.py, emitwrapper.py) are modelled as the text the             *)
(* specification gives them: one full definition per class, one wrapper    *)
(* signature and one wrapper body per function.                            *)
(***************************************************************************)
HeaderDeclaration(dependencies, decl_body) ==
    [dependencies |-> dependencies, body |-> decl_body]

\* declare_global: "if name not in self.context.declarations: ..."
declare_global(decls, type_spaced, name) ==
    IF \E i \in 1..Len(decls) : decls[i].name = name
    THEN decls
    ELSE Append(decls,
                [name |-> name,
                 declaration |->
                    HeaderDeclaration({}, << Line("{}{}{};", <<"static ", type_spaced, name>>) >>)])

declare_internal_globals(decls) == declare_global(decls, "PyObject *", <<"_globals">>)

declare_import(decls, imp) == declare_global(decls, "CPyModule *", c_module_name(imp))

RECURSIVE declare_imports(_, _)
declare_imports(decls, imps) ==
    IF imps = <<>> THEN decls
    ELSE declare_imports(declare_import(decls, Head(imps)), Tail(imps))

declare_static_pyobject(decls, symbol) == declare_global(decls, "PyObject *", <<symbol>>)

\* "for module in module_irs: self.declare_imports(module.imports)"
RECURSIVE declare_module_imports(_, _)
declare_module_imports(decls, mods) ==
    IF mods = <<>> THEN decls
    ELSE declare_module_imports(declare_imports(decls, Head(mods)[2].imports), Tail(mods))

RECURSIVE declare_literals(_, _)
declare_literals(decls, literals) ==
    IF literals = <<>> THEN decls
    ELSE declare_literals(declare_static_pyobject(decls, Head(literals).symbol), Tail(literals))

\* "for module in module_irs: for symbol in module.literals.values(): ..."
RECURSIVE declare_module_literals(_, _)
declare_module_literals(decls, mods) ==
    IF mods = <<>> THEN decls
    ELSE declare_module_literals(declare_literals(decls, Head(mods)[2].literals), Tail(mods))

\* toposort_declarations as a function of the table: a visit of a marked
\* name returns, a visit of another name visits its dependencies, appends
\* the declaration and marks it.
RECURSIVE toposort_visit(_, _, _)
RECURSIVE toposort_visit_children(_, _, _)
toposort_visit(decls, name, sorted) ==
    LET decl == decls[CHOOSE i \in 1..Len(decls) : decls[i].name = name]
    IN  IF \E i \in 1..Len(sorted) : sorted[i].name = name
        THEN sorted
        ELSE Append(toposort_visit_children(decls, decl.declaration.dependencies, sorted), decl)

toposort_visit_children(decls, children, sorted) ==
    IF children = {} THEN sorted
    ELSE LET child == CHOOSE c \in children : TRUE
         IN  toposort_visit_children(decls, children \ {child},
                                     toposort_visit(decls, child, sorted))

RECURSIVE toposort_from(_, _, _)
toposort_from(decls, i, sorted) ==
    IF i > Len(decls) THEN sorted
    ELSE toposort_from(decls, i + 1, toposort_visit(decls, decls[i].name, sorted))

sorted_declarations(decls) ==
    LET sorted == toposort_from(decls, 1, <<>>)
    IN  [i \in 1..Len(sorted) |-> sorted[i].declaration]

\* wrapper_function_header (emitwrapper.py)
wrapper_function_header(fn) ==
    <<"PyObject *{prefix}{name}(PyObject *self, PyObject *args, PyObject *kw)",
      "CPyPy_", fn.cname>>

generate_function_declaration(fn) ==
    << Line("{};", <<native_function_header(fn)>>),
       Line("{};", <<wrapper_function_header(fn)>>) >>

\* generate_class (emitclass.py): the definition of the class
generate_class(cl, module_name) ==
    << Line("static PyTypeObject {} = {{", <<type_struct(cl), module_name>>),
       Line("};", <<>>) >>

\* generate_wrapper_function (emitwrapper.py): the body of the wrapper
generate_wrapper_function(fn) ==
    << Line("{} {{", <<wrapper_function_header(fn)>>),
       Line("return {}{}(args);", <<NATIVE_PREFIX, fn.cname>>),
       Line("}", <<>>) >>

\* "for fn in module.functions: emitter.emit_line(); generate_native_function(...);
\*  emitter.emit_line(); generate_wrapper_function(fn, emitter)"
RECURSIVE generate_functions(_, _)
generate_functions(fns, emitter) ==
    IF fns = <<>> THEN emitter
    ELSE generate_functions(
            Tail(fns),
            generate_native_function(Head(fns), Append(emitter, Line("", <<>>))).emitter
                \o << Line("", <<>>) >>
                \o generate_wrapper_function(Head(fns)))

RECURSIVE generate_module_functions(_, _)
generate_module_functions(mods, emitter) ==
    IF mods = <<>> THEN emitter
    ELSE generate_module_functions(Tail(mods),
                                   generate_functions(Head(mods)[2].functions, emitter))

\* The lines of the declarations emitter.
declarations_fragments(decls) ==
    << Line("#include <Python.h>", <<>>),
       Line("#include <CPy.h>", <<>>),
       Line("", <<>>) >>
    \o Concat([i \in 1..Len(sorted_declarations(decls)) |-> sorted_declarations(decls)[i].body])

\* A generator that returns the text of the emitter before the declarations.
returned_text_emitter_first(declarations_text, emitter_text) ==
    emitter_text \o declarations_text

\* "return ''.join(declarations.fragments + emitter.fragments)"
returned_text(declarations_text, emitter_text) ==
    declarations_text \o emitter_text

InitGenerator ==
    /\ modules \in ModuleLists
    /\ fragments = <<>>
    /\ module_position = 1
    /\ generator_pc = "declare_globals"
    /\ context_declarations = <<>>
    /\ output = <<>>
    /\ IdleToposort
    /\ IdleSameType
    /\ IdleSlot
    /\ IdleEmit
    /\ IdleIR
    /\ IdleNative
    /\ IdleCompile
    /\ IdleLoad

\* "self.declare_internal_globals()" and the loops that declare the imports
\* and the literals of every module.
DeclareGlobals ==
    /\ generator_pc = "declare_globals"
    /\ context_declarations' =
          declare_module_literals(
              declare_module_imports(declare_internal_globals(context_declarations), modules),
              modules)
    /\ generator_pc' = "function_declarations"
    /\ UNCHANGED <<modules, fragments, module_position, output>>
    /\ UNCHANGED not_generator_vars

\* "for module in module_irs: for fn in module.functions:
\*      generate_function_declaration(fn, emitter)"
GenerateFunctionDeclarations ==
    /\ generator_pc = "function_declarations"
    /\ fragments' = fragments \o
          Concat([i \in 1..Len(modules) |->
              Concat([j \in 1..Len(modules[i][2].functions) |->
                  generate_function_declaration(modules[i][2].functions[j])])])
    /\ generator_pc' = "classes"
    /\ UNCHANGED <<modules, module_position, context_declarations, output>>
    /\ UNCHANGED not_generator_vars

\* "for module_name, module in self.modules: for cl in module.classes:
\*      generate_class(cl, module_name, emitter)" and "emitter.emit_line()"
GenerateClasses ==
    /\ generator_pc = "classes"
    /\ fragments' = fragments \o
          Concat([i \in 1..Len(modules) |->
              Concat([j \in 1..Len(modules[i][2].classes) |->
                  generate_class(modules[i][2].classes[j], modules[i][1])])])
          \o << Line("", <<>>) >>
    /\ generator_pc' = "module_defs"
    /\ UNCHANGED <<modules, module_position, context_declarations, output>>
    /\ UNCHANGED not_generator_vars

\* "for module_name, module in self.modules:
\*      self.generate_module_def(emitter, module_name, module)"
GenerateModuleDef ==
    /\ generator_pc = "module_defs"
    /\ module_position <= Len(modules)
    /\ fragments' = fragments \o
          generate_module_def(Len(modules), modules[module_position][1],
                              modules[module_position][2])
    /\ module_position' = module_position + 1
    /\ UNCHANGED <<modules, generator_pc, context_declarations, output>>
    /\ UNCHANGED not_generator_vars

\* The loop over self.modules ends.
ModuleDefsDone ==
    /\ generator_pc = "module_defs"
    /\ module_position > Len(modules)
    /\ generator_pc' = "functions"
    /\ UNCHANGED <<modules, fragments, module_position, context_declarations, output>>
    /\ UNCHANGED not_generator_vars

\* "for module_name, module in self.modules: for fn in module.functions: ..."
GenerateFunctions ==
    /\ generator_pc = "functions"
    /\ fragments' = generate_module_functions(modules, fragments)
    /\ generator_pc' = "return"
    /\ UNCHANGED <<modules, module_position, context_declarations, output>>
    /\ UNCHANGED not_generator_vars

\* The declarations emitter is filled from the sorted declarations and the
\* text of the two emitters is returned.
ReturnText ==
    /\ generator_pc = "return"
    /\ output' = returned_text(declarations_fragments(context_declarations), fragments)
    /\ generator_pc' = "done"
    /\ UNCHANGED <<modules, fragments, module_position, context_declarations>>
    /\ UNCHANGED not_generator_vars

NextGenerator ==
    \/ DeclareGlobals
    \/ GenerateFunctionDeclarations
    \/ GenerateClasses
    \/ GenerateModuleDef
    \/ ModuleDefsDone
    \/ GenerateFunctions
    \/ ReturnText

SpecGenerator == InitGenerator /\ [][NextGenerator]_vars

\* Whether a line of the given format, with the given first value, was emitted.
Emitted(fmt, arg) ==
    \E i \in 1..Len(fragments) : fragments[i][1] = fmt /\ fragments[i][2] = arg

EmittedFormat(fmt) == \E i \in 1..Len(fragments) : fragments[i][1] = fmt

\* C8: a single module gets the init routine PyInit_<module>; with two or
\* more modules every module gets x_PyInit_<module> and no PyInit_<module>
\* is emitted for any of them.
InitEntryPointNames ==
    /\ \A i \in 1..(module_position - 1) :
          IF Len(modules) = 1
          THEN Emitted("PyMODINIT_FUNC PyInit_{}(void)", modules[i][1])
          ELSE Emitted("PyObject *x_PyInit_{}(void)", modules[i][1])
    /\ Len(modules) = 1 => ~EmittedFormat("PyObject *x_PyInit_{}(void)")
    /\ Len(modules) > 1 => ~EmittedFormat("PyMODINIT_FUNC PyInit_{}(void)")

\* Two modules compiled together, both module definitions emitted.
TwoModuleDefsEmitted ==
    /\ generator_pc = "done"
    /\ Len(modules) = 2
    /\ \A i \in 1..2 : Emitted("PyObject *x_PyInit_{}(void)", modules[i][1])

\* The part of the returned text a line opens or belongs to: a global
\* declaration, a forward declaration of a function, a class definition, the
\* method table, the descriptor or the init routine of a module (its first
\* line and its return of the module), a native body or a wrapper body.
Section(line) ==
    CASE line[1] = "{}{}{};" -> "global"
      [] line[1] = "{};" -> "forward"
      [] line[1] = "static PyTypeObject {} = {{" -> "class"
      [] line[1] = "static PyMethodDef {}module_methods[] = {{" -> "table"
      [] line[1] = "static struct PyModuleDef {}module = {{" -> "descriptor"
      [] line[1] \in {"PyMODINIT_FUNC PyInit_{}(void)", "PyObject *x_PyInit_{}(void)"} -> "init"
      [] line[1] = "return m;" -> "init"
      [] line[1] = "{} {{" ->
            IF line[2][1] = "static {ret_type}{prefix}{name}({args})" THEN "native" ELSE "wrapper"
      [] OTHER -> "other"

\* The place of a part in the order of the claim.
Rank(line) ==
    CASE Section(line) = "global" -> 1
      [] Section(line) \in {"forward", "class"} -> 2
      [] Section(line) \in {"table", "descriptor", "init"} -> 3
      [] Section(line) \in {"native", "wrapper"} -> 4
      [] OTHER -> 0

IsSectionLine(line) == Rank(line) > 0

IsModuleDefLine(line) == Rank(line) = 3

IsFunctionBodyLine(line) == Rank(line) = 4

\* The functions of all modules, in module order and source order.
AllFunctions == Concat([i \in 1..Len(modules) |-> modules[i][2].functions])

\* C16: in the returned text every global declaration of the sorted table
\* comes first, then the forward declarations of the functions and the class
\* definitions, then the method table, descriptor and init routine of every
\* module in input order, then the function bodies in module order and
\* source order, the native body of a function directly before its wrapper
\* body.
TextInSectionOrder ==
    generator_pc = "done" =>
        LET parts == SelectSeq(output, IsSectionLine)
        IN  /\ \A i, j \in 1..Len(parts) : i < j => Rank(parts[i]) <= Rank(parts[j])
            /\ \A d \in 1..Len(context_declarations) :
                  \E i \in 1..Len(output) :
                     /\ Section(output[i]) = "global"
                     /\ output[i][4] = context_declarations[d].name
            /\ Len(SelectSeq(parts, LAMBDA l : Section(l) = "forward")) = 2 * Len(AllFunctions)
            /\ SelectSeq(parts, IsModuleDefLine) =
                  Concat([i \in 1..Len(modules) |->
                     << Line("static PyMethodDef {}module_methods[] = {{",
                             <<private_name(modules[i][1])>>),
                        Line("static struct PyModuleDef {}module = {{",
                             <<private_name(modules[i][1])>>),
                        Line(IF Len(modules) = 1 THEN "PyMODINIT_FUNC PyInit_{}(void)"
                             ELSE "PyObject *x_PyInit_{}(void)", <<modules[i][1]>>),
                        Line("return m;", <<>>) >>])
            /\ SelectSeq(parts, IsFunctionBodyLine) =
                  Concat([k \in 1..Len(AllFunctions) |->
                     << Line("{} {{", <<native_function_header(AllFunctions[k])>>),
                        Line("{} {{", <<wrapper_function_header(AllFunctions[k])>>) >>])
            /\ \A i \in 1..Len(output) :
                  Section(output[i]) = "wrapper" =>
                     /\ output[i - 1] = Line("", <<>>)
                     /\ output[i - 2] = Line("}", <<>>)

\* The text of two modules was returned: the first has two functions, a
\* class, a second import and literals, the second has a function.
TwoModuleTextReturned ==
    /\ generator_pc = "done"
    /\ Len(modules) = 2
    /\ Len(modules[1][2].functions) = 2
    /\ Len(modules[1][2].classes) = 1
    /\ Len(modules[1][2].imports) = 2
    /\ Len(modules[1][2].literals) = 3
    /\ Len(modules[2][2].functions) = 1
    /\ Len(output) > Len(fragments)

\* The k-th smallest element of a set of positions.
Nth(S, k) == CHOOSE i \in S : Cardinality({j \in S : j <= i}) = k

\* The init routine emitted for the k-th module: the lines from its
\* declaration to its return of the module.
InitRoutine(k) ==
    SubSeq(fragments,
           Nth({i \in 1..Len(fragments) :
                   fragments[i][1] \in {"PyMODINIT_FUNC PyInit_{}(void)",
                                        "PyObject *x_PyInit_{}(void)"}}, k),
           Nth({i \in 1..Len(fragments) : fragments[i][1] = "return m;"}, k))

\* The step of the init routine a line performs, 0 for a line that is no step.
InitStep(line) ==
    CASE line[1] = "if (PyType_Ready(&{}) < 0)" -> 1
      [] line[1] = "m = PyModule_Create(&{}module);" -> 2
      [] line[1] = "_globals = PyModule_GetDict(m);" -> 3
      [] line[1] = "{} = PyImport_ImportModule({});" -> 4
      [] line[1] \in {"{} = PyLong_FromString({}, NULL, 10);", "{} = PyFloat_FromDouble({});",
                      "{} = PyUnicode_FromStringAndSize({}, {});"} -> 5
      [] line[1] = "PyModule_AddObject(m, {}, (PyObject *)&{});" -> 6
      [] line[1] = "return m;" -> 7
      [] OTHER -> 0

IsInitStep(line) == InitStep(line) > 0

\* Whether the step at position p of a routine is followed at once by the
\* check of its result and the return of the failure value.
FailureReturnsAtOnce(routine, p) ==
    CASE InitStep(routine[p]) = 1 ->
            routine[p + 1] = Line("    return NULL;", <<>>)
      [] InitStep(routine[p]) \in {2, 3} ->
            /\ routine[p + 1] = Line(IF InitStep(routine[p]) = 2 THEN "if (m == NULL)"
                                     ELSE "if (_globals == NULL)", <<>>)
            /\ routine[p + 2] = Line("    return NULL;", <<>>)
      [] InitStep(routine[p]) = 4
         \/ routine[p][1] = "{} = PyUnicode_FromStringAndSize({}, {});" ->
            /\ routine[p + 1] = Line("if ({} == NULL)", <<routine[p][2]>>)
            /\ routine[p + 2] = Line("    return NULL;", <<>>)
      [] OTHER -> TRUE

\* C17: the init routine registers every class type, creates the module,
\* stores its dictionary in the global, imports every import in list order,
\* materializes every literal, adds every class object and returns the
\* module, in this order; the registration of a class, the creation of the
\* module, the retrieval of the dictionary, every import and every creation
\* of a string literal is followed at once by the return of the failure
\* value when it failed.
InitRoutineStepOrder ==
    \A k \in 1..(module_position - 1) :
        LET routine == InitRoutine(k)
            module  == modules[k][2]
            steps   == SelectSeq(routine, IsInitStep)
        IN  /\ \A i, j \in 1..Len(steps) : i < j => InitStep(steps[i]) <= InitStep(steps[j])
            /\ [i \in 1..Len(steps) |-> InitStep(steps[i])]
                  = [i \in 1..Len(module.classes) |-> 1] \o <<2, 3>>
                    \o [i \in 1..Len(module.imports) |-> 4]
                    \o [i \in 1..Len(module.literals) |-> 5]
                    \o [i \in 1..Len(module.classes) |-> 6] \o <<7>>
            /\ \A i \in 1..Len(module.classes) :
                  /\ steps[i][2] = type_struct(module.classes[i])
                  /\ steps[Len(steps) - 1 - Len(module.classes) + i][2] = module.classes[i].name
            /\ \A i \in 1..Len(module.imports) :
                  steps[Len(module.classes) + 2 + i][3] = module.imports[i]
            /\ \A i \in 1..Len(module.literals) :
                  steps[Len(module.classes) + 2 + Len(module.imports) + i][2]
                     = module.literals[i].symbol
            /\ \A p \in 1..Len(routine) : FailureReturnsAtOnce(routine, p)

\* The init routines of two modules were emitted; the second module has a
\* class, two imports and the three literals.
FullInitRoutineEmitted ==
    /\ module_position = 3
    /\ Len(modules[2][2].classes) = 1
    /\ Len(modules[2][2].imports) = 2
    /\ Len(modules[2][2].literals) = 3
    /\ Len(InitRoutine(2)) > 20

(***************************************************************************)
(* compile_modules_to_c (emitmodule.py:28-53).                             *)
(*                                                                         *)
(* build (mypy), genops.build_ir, insert_exception_handling and            *)
(* insert_ref_count_opcodes are calls out of the files modelled: the model *)
(* records each call in compile_steps, draws the errors build returned and *)
(* the ModuleIR build_ir returned.                                         *)
(***************************************************************************)
MaxErrors == 2

CompileError(errors) == [raised |-> "CompileError", value |-> errors]

\* The error lists of a type-check result.
ErrorLists == UNION {[1..n -> {"a.py:1: error", "b.py:2: error"}] : n \in 0..MaxErrors}

\* The module_names argument: the first n names.
ModuleNameLists == {SubSeq(ModuleNames, 1, n) : n \in 1..MaxModules}

Call(name, arg) == [call |-> name, arg |-> arg]

\* A check of the type-check result that lets every result pass.
result_has_errors_never(errors) == FALSE

\* "if result.errors:"
result_has_errors(errors) == errors # <<>>

\* A pass that runs on the functions of the first module only.
CallsPerFunction_first_module(name, mods) ==
    [j \in 1..Len(mods[1][2].functions) |-> Call(name, <<mods[1][1], mods[1][2].functions[j].name>>)]

\* One call for each function of each module, in module and source order;
\* the function is told by its module and its name.
CallsPerFunction(name, mods) ==
    Concat([i \in 1..Len(mods) |->
        [j \in 1..Len(mods[i][2].functions) |->
            Call(name, <<mods[i][1], mods[i][2].functions[j].name>>)]])

\* ModuleGenerator(modules, source_paths).generate_c_for_modules()
generate_c_for_modules(mods) ==
    LET decls == declare_module_literals(
                    declare_module_imports(declare_internal_globals(<<>>), mods), mods)
        emitter ==
            Concat([i \in 1..Len(mods) |->
                Concat([j \in 1..Len(mods[i][2].functions) |->
                    generate_function_declaration(mods[i][2].functions[j])])])
            \o Concat([i \in 1..Len(mods) |->
                Concat([j \in 1..Len(mods[i][2].classes) |->
                    generate_class(mods[i][2].classes[j], mods[i][1])])])
            \o << Line("", <<>>) >>
            \o Concat([i \in 1..Len(mods) |->
                generate_module_def(Len(mods), mods[i][1], mods[i][2])])
    IN  returned_text(declarations_fragments(decls),
                      generate_module_functions(mods, emitter))

InitCompile ==
    /\ compile_pc = "build"
    /\ compile_args \in [module_names : ModuleNameLists, strict_optional : BOOLEAN]
    /\ build_result = NoArg
    /\ compile_modules = <<>>
    /\ compile_steps = <<>>
    /\ compile_result = NoResult
    /\ IdleToposort
    /\ IdleSameType
    /\ IdleSlot
    /\ IdleGenerator
    /\ IdleEmit
    /\ IdleIR
    /\ IdleNative
    /\ IdleLoad

\* "assert options.strict_optional, ..." and "result = build(...)"
Build ==
    /\ compile_pc = "build"
    /\ IF compile_args.strict_optional
       THEN \E errors \in ErrorLists :
               /\ build_result' = [errors |-> errors, files |-> compile_args.module_names]
               /\ compile_steps' = Append(compile_steps, Call("build", ""))
               /\ compile_pc' = "check_errors"
               /\ UNCHANGED compile_result
       ELSE /\ compile_result' = AssertionError
            /\ compile_pc' = "done"
            /\ UNCHANGED <<build_result, compile_steps>>
    /\ UNCHANGED <<compile_args, compile_modules>>
    /\ UNCHANGED not_compile_vars

\* "if result.errors: raise CompileError(result.errors)"
CheckErrors ==
    /\ compile_pc = "check_errors"
    /\ IF result_has_errors(build_result.errors)
       THEN /\ compile_result' = CompileError(build_result.errors)
            /\ compile_pc' = "done"
       ELSE /\ compile_pc' = "build_ir"
            /\ UNCHANGED compile_result
    /\ UNCHANGED <<compile_args, build_result, compile_modules, compile_steps>>
    /\ UNCHANGED not_compile_vars

\* "modules = [(module_name, genops.build_ir(...)) for module_name in module_names]"
BuildIR ==
    /\ compile_pc = "build_ir"
    /\ Len(compile_modules) < Len(compile_args.module_names)
    /\ \E ir \in ModuleIRs :
          LET module_name == compile_args.module_names[Len(compile_modules) + 1]
          IN  /\ compile_modules' = Append(compile_modules, <<module_name, ir>>)
              /\ compile_steps' = Append(compile_steps, Call("build_ir", module_name))
    /\ UNCHANGED <<compile_pc, compile_args, build_result, compile_result>>
    /\ UNCHANGED not_compile_vars

\* "for _, module in modules: for fn in module.functions: insert_exception_handling(fn)"
InsertExceptionHandling ==
    /\ compile_pc = "build_ir"
    /\ Len(compile_modules) = Len(compile_args.module_names)
    /\ compile_steps' =
          compile_steps \o CallsPerFunction("insert_exception_handling", compile_modules)
    /\ compile_pc' = "refcount"
    /\ UNCHANGED <<compile_args, build_result, compile_modules, compile_result>>
    /\ UNCHANGED not_compile_vars

\* "for _, module in modules: for fn in module.functions: insert_ref_count_opcodes(fn)"
InsertRefCountOpcodes ==
    /\ compile_pc = "refcount"
    /\ compile_steps' =
          compile_steps \o CallsPerFunction("insert_ref_count_opcodes", compile_modules)
    /\ compile_pc' = "generate"
    /\ UNCHANGED <<compile_args, build_result, compile_modules, compile_result>>
    /\ UNCHANGED not_compile_vars

\* "generator = ModuleGenerator(modules, source_paths)
\*  return generator.generate_c_for_modules()"
GenerateC ==
    /\ compile_pc = "generate"
    /\ compile_steps' = Append(compile_steps, Call("generate_c_for_modules", ""))
    /\ compile_result' = Returned(generate_c_for_modules(compile_modules))
    /\ compile_pc' = "done"
    /\ UNCHANGED <<compile_args, build_result, compile_modules>>
    /\ UNCHANGED not_compile_vars

NextCompile ==
    \/ Build
    \/ CheckErrors
    \/ BuildIR
    \/ InsertExceptionHandling
    \/ InsertRefCountOpcodes
    \/ GenerateC

SpecCompile == InitCompile /\ [][NextCompile]_vars

\* C18: when the type-check result has errors, no IR is built, no pass is
\* run and no text is generated, and the compilation ends with CompileError
\* of the errors collected and returns nothing.
TypeErrorsAbort ==
    (build_result # NoArg /\ build_result.errors # <<>>) =>
        /\ compile_modules = <<>>
        /\ \A i \in 1..Len(compile_steps) : compile_steps[i].call = "build"
        /\ compile_pc \in {"check_errors", "done"}
        /\ compile_pc = "done" => compile_result = CompileError(build_result.errors)
        /\ compile_result.raised = "none" => compile_result = NoResult

\* A compilation of two modules ended with the two errors of the type check.
CompilationAbortedOnTwoErrors ==
    /\ compile_pc = "done"
    /\ Len(compile_args.module_names) = 2
    /\ build_result # NoArg
    /\ Len(build_result.errors) = 2
    /\ compile_result.raised = "CompileError"
    /\ compile_result.value = build_result.errors

\* The positions in compile_steps of the calls of a pass on a function.
PassCalls(name, module_name, fn_name) ==
    {i \in 1..Len(compile_steps) :
        /\ compile_steps[i].call = name
        /\ compile_steps[i].arg = <<module_name, fn_name>>}

\* C25: every function of every module gets insert_exception_handling once
\* and insert_ref_count_opcodes once, the first before the second, and when
\* generate_c_for_modules is called both passes have run on every function;
\* no pass runs on anything else.
PassesOnceBeforeGeneration ==
    LET generated == {i \in 1..Len(compile_steps) :
                         compile_steps[i].call = "generate_c_for_modules"}
        passes    == {"insert_exception_handling", "insert_ref_count_opcodes"}
    IN  /\ \A m \in 1..Len(compile_modules) :
              \A f \in 1..Len(compile_modules[m][2].functions) :
                 LET module_name == compile_modules[m][1]
                     fn_name     == compile_modules[m][2].functions[f].name
                     handled     == PassCalls("insert_exception_handling", module_name, fn_name)
                     counted     == PassCalls("insert_ref_count_opcodes", module_name, fn_name)
                 IN  /\ Cardinality(handled) <= 1
                     /\ Cardinality(counted) <= 1
                     /\ \A c \in counted : \E h \in handled : h < c
                     /\ \A g \in generated :
                           /\ \E h \in handled : h < g
                           /\ \E c \in counted : c < g
        /\ \A i \in 1..Len(compile_steps) :
              compile_steps[i].call \in passes =>
                 \E m \in 1..Len(compile_modules) :
                    \E f \in 1..Len(compile_modules[m][2].functions) :
                       compile_steps[i].arg =
                          <<compile_modules[m][1], compile_modules[m][2].functions[f].name>>
        /\ compile_pc = "done" /\ compile_result.raised = "none" /\ compile_result # NoResult
              => generated # {}

\* The text of two modules was generated: the first has two functions and
\* the second has one.
ThreeFunctionsCompiled ==
    /\ compile_pc = "done"
    /\ compile_result.raised = "none"
    /\ Len(compile_modules) = 2
    /\ Len(compile_modules[1][2].functions) = 2
    /\ Len(compile_modules[2][2].functions) = 1
    /\ Len(compile_steps) = 10

(***************************************************************************)
(* The compiled extension at run time: what the emitted C text does when   *)
(* the init routines of its modules run and a function records a           *)
(* traceback (emitmodule.py:166-171, 242-243, emitfunc.py:111-114).        *)
(*                                                                         *)
(* The text declares one static variable _globals for the whole extension  *)
(* (declare_global adds a name once); every init routine assigns it and    *)
(* every CPy_AddTraceback call reads it.                                   *)
(***************************************************************************)
\* h(x) tests its argument for the error value and records a traceback.
FuncH ==
    FuncIR("h", "", NativeArgs(1), int_rprimitive,
           << [label |-> 0,
               ops |-> << [Branch(0, INVALID_REGISTER, 1, 2, "IS_ERROR", 7)
                              EXCEPT !.traceback_entry = <<"h", 7>>] >>],
              [label |-> 1, ops |-> <<Return(0)>>],
              [label |-> 2, ops |-> <<Return(0)>>] >>,
           EnvOf(NativeArgs(1), 0))

\* The extensions loaded: one or more modules, each with a function that
\* records a traceback.
LoadModuleIRs ==
    {[imports |-> <<"builtins">>, literals |-> <<>>, functions |-> f, classes |-> c] :
        f \in {<<FuncH>>, <<FuncF, FuncH>>}, c \in ClassLists}

LoadModuleLists ==
    {[i \in 1..Len(irs) |-> <<ModuleNames[i], irs[i]>>] :
        irs \in UNION {[1..n -> LoadModuleIRs] : n \in 1..MaxModules}}

\* The dictionary of the module object PyModule_Create makes from the
\* PyModuleDef "<prefix>module".
DictOf(module_prefix) == <<"dict", module_prefix>>

\* The init routine of the k-th module in the text.
init_routine(text, k) ==
    SubSeq(text,
           Nth({i \in 1..Len(text) :
                   text[i][1] \in {"PyMODINIT_FUNC PyInit_{}(void)",
                                   "PyObject *x_PyInit_{}(void)"}}, k),
           Nth({i \in 1..Len(text) : text[i][1] = "return m;"}, k))

\* The value of _globals after the statements of an init routine ran, every
\* call succeeding: st is the local m and the static _globals.
RECURSIVE run_init(_, _)
run_init(routine, st) ==
    IF routine = <<>> THEN st
    ELSE LET line == Head(routine)
         IN  run_init(Tail(routine),
                CASE line[1] = "m = PyModule_Create(&{}module);" -> [st EXCEPT !.m = line[2]]
                  [] line[1] = "_globals = PyModule_GetDict(m);" ->
                        [st EXCEPT !.globals = DictOf(st.m)]
                  [] OTHER -> st)

\* Whether a line of a function body is a traceback call that passes _globals.
IsTracebackCall(line) == line[1] = "CPy_AddTraceback(\"%s\", \"%s\", %d, _globals);"

InitLoad ==
    /\ extension_modules \in LoadModuleLists
    /\ extension_text = generate_c_for_modules(extension_modules)
    /\ c_globals = "NULL"
    /\ initialized = <<>>
    /\ traceback = NoArg
    /\ IdleToposort
    /\ IdleSameType
    /\ IdleSlot
    /\ IdleGenerator
    /\ IdleEmit
    /\ IdleIR
    /\ IdleNative
    /\ IdleCompile

\* The interpreter imports a module of the extension: its init routine runs.
RunInit ==
    \E k \in 1..Len(extension_modules) :
        /\ \A i \in 1..Len(initialized) : initialized[i] # extension_modules[k][1]
        /\ c_globals' = run_init(init_routine(extension_text, k),
                                 [m |-> "NULL", globals |-> c_globals]).globals
        /\ initialized' = Append(initialized, extension_modules[k][1])
        /\ UNCHANGED <<extension_modules, extension_text, traceback>>
        /\ UNCHANGED not_load_vars

\* A function of an initialized module takes the error side of a branch
\* with a traceback entry: the call passes the current value of _globals.
AddTraceback ==
    \E k \in 1..Len(extension_modules) :
        \E j \in 1..Len(extension_modules[k][2].functions) :
            LET fn    == extension_modules[k][2].functions[j]
                lines == generate_native_function(fn, <<>>).body
            IN  /\ \E i \in 1..Len(initialized) : initialized[i] = extension_modules[k][1]
                /\ \E i \in 1..Len(lines) :
                      /\ IsTracebackCall(lines[i])
                      /\ \E p \in 1..Len(extension_text) : extension_text[p] = lines[i]
                /\ traceback' = [module |-> extension_modules[k][1], function |-> fn.name,
                                 globals |-> c_globals]
                /\ UNCHANGED <<extension_modules, extension_text, c_globals, initialized>>
                /\ UNCHANGED not_load_vars

NextLoad == RunInit \/ AddTraceback

SpecLoad == InitLoad /\ [][NextLoad]_vars

\* C27: the dictionary a function passes to the traceback call is the
\* dictionary of the function's own module, in whatever order the init
\* routines of the modules of the extension ran.
TracebackPassesOwnDict ==
    traceback # NoArg => traceback.globals = DictOf(private_name(traceback.module))

====
